---------------------------- MODULE Spec2Model ----------------------------
(***************************************************************************)
(* Model of the nickname generator of nameforge:                           *)
(*   src/src/generator/nickname_generator.py  (NicknameGenerator)          *)
(*   src/src/tags/tag_manager.py              (TagManager)                 *)
(*   src/src/config/config_manager.py         (ConfigManager accessors)    *)
(*                                                                         *)
(* Strings (names, templates, category names, tags) are sequences of       *)
(* one-character strings, so that re.findall, str.replace and the `in`     *)
(* substring test are computed character by character as Python does.      *)
(* Python dicts are functions; a key is present iff it is in the DOMAIN.   *)
(* Lists whose order the code leaves unspecified (list(set(..)) and the    *)
(* result of random.sample) are bags.                                      *)
(***************************************************************************)
EXTENDS Integers, Sequences, FiniteSets, Bags, TLC

(***************************************************************************)
(* Bounds of the call arguments                                            *)
(***************************************************************************)
\* longest root list of one category
MaxRoots == 2
\* largest requested count
MaxCount == 2
\* longest tag list handed to TagManager.check_tag_compatibility
MaxTags == 2

(***************************************************************************)
(* Python helpers                                                          *)
(***************************************************************************)
\* dict.get(key, default)
Get(d, key, default) == IF key \in DOMAIN d THEN d[key] ELSE default

\* x in list
InList(x, list) == \E i \in 1..Len(list) : list[i] = x

\* set(list)
ToSet(list) == {list[i] : i \in 1..Len(list)}

\* the empty dict
EmptyDict == [k \in {} |-> <<>>]

\* characters matched by \w among the characters the model uses
WordChars == {"A", "B", "C", "t", "u", "v", "x", "y", "z", "_"}

\* s[i:].startswith(sub)
StartsWithAt(s, i, sub) ==
    /\ i + Len(sub) - 1 <= Len(s)
    /\ \A k \in 1..Len(sub) : s[i + k - 1] = sub[k]

\* sub in s   (the empty string is in every string)
Contains(s, sub) == \E i \in 1..(Len(s) + 1) : StartsWithAt(s, i, sub)

\* "".join(parts)
RECURSIVE Join(_)
Join(parts) == IF parts = <<>> THEN <<>> ELSE Head(parts) \o Join(Tail(parts))

\* s.replace(old, new) from position i on, old non-empty:
\* every non-overlapping occurrence, leftmost first
RECURSIVE ReplaceFrom(_, _, _, _)
ReplaceFrom(s, i, old, new) ==
    IF i > Len(s) THEN <<>>
    ELSE IF StartsWithAt(s, i, old)
         THEN new \o ReplaceFrom(s, i + Len(old), old, new)
         ELSE <<s[i]>> \o ReplaceFrom(s, i + 1, old, new)

\* mutant: s.replace(old, new, 1), only the leftmost occurrence
ReplaceFirst(s, old, new) ==
    IF ~Contains(s, old) THEN s
    ELSE LET i == CHOOSE n \in 1..Len(s) :
                      /\ StartsWithAt(s, n, old)
                      /\ \A m \in 1..(n - 1) : ~StartsWithAt(s, m, old)
         IN  SubSeq(s, 1, i - 1) \o new \o SubSeq(s, i + Len(old), Len(s))

Replace(s, old, new) == ReplaceFrom(s, 1, old, new)

(***************************************************************************)
(* re.findall(r'\{(\w+)(?::(\w+))?\}', template)                           *)
(***************************************************************************)
\* index of the last character of the maximal \w run that starts at i
\* (i - 1 when s[i] is no word character)
RECURSIVE WordRunEnd(_, _)
WordRunEnd(s, i) ==
    IF i <= Len(s) /\ s[i] \in WordChars THEN WordRunEnd(s, i + 1) ELSE i - 1

\* the match of the pattern that starts exactly at position i, if any.
\* \w+ is greedy and what must follow it (":" or "}") is no word character,
\* so backtracking into a shorter run can never succeed.
MatchAt(s, i) ==
    LET none == [ok |-> FALSE, end |-> i, category |-> <<>>, tag |-> <<>>]
        j == WordRunEnd(s, i + 1)
        k == WordRunEnd(s, j + 2)
    IN  IF ~(i <= Len(s) /\ s[i] = "{") \/ j < i + 1 THEN none
        ELSE IF /\ j + 1 <= Len(s) /\ s[j + 1] = ":"
                /\ k >= j + 2
                /\ k + 1 <= Len(s) /\ s[k + 1] = "}"
             THEN [ok |-> TRUE, end |-> k + 1,
                   category |-> SubSeq(s, i + 1, j), tag |-> SubSeq(s, j + 2, k)]
        ELSE IF j + 1 <= Len(s) /\ s[j + 1] = "}"
             THEN [ok |-> TRUE, end |-> j + 1,
                   category |-> SubSeq(s, i + 1, j), tag |-> <<>>]
        ELSE none

\* the (category, tag_constraint) groups of the non-overlapping matches,
\* scanning left to right from position i; an absent group is ''
RECURSIVE FindAllFrom(_, _)
FindAllFrom(s, i) ==
    IF i > Len(s) THEN <<>>
    ELSE LET m == MatchAt(s, i)
         IN  IF m.ok THEN <<<<m.category, m.tag>>>> \o FindAllFrom(s, m.end + 1)
             ELSE FindAllFrom(s, i + 1)

FindAll(template) == FindAllFrom(template, 1)

(***************************************************************************)
(* NicknameGenerator._apply_template                                       *)
(***************************************************************************)
\* categories.append(category) for every match
CategoriesOf(matches) == [i \in 1..Len(matches) |-> matches[i][1]]

\* constraints[category] = tag_constraint for every match with a non-empty
\* constraint, in match order: a later match of the same category overwrites
RECURSIVE ConstraintsOf(_)
ConstraintsOf(matches) ==
    IF matches = <<>> THEN EmptyDict
    ELSE LET n == Len(matches)
             before == ConstraintsOf(SubSeq(matches, 1, n - 1))
             category == matches[n][1]
             tag_constraint == matches[n][2]
         IN  IF tag_constraint # <<>>
             THEN [c \in DOMAIN before \cup {category} |->
                      IF c = category THEN tag_constraint ELSE before[c]]
             ELSE before

\* mutant: every root qualifies
HasTagAlways(r, tag_constraint) == TRUE

\* [r for r in root_list if tag_constraint in r.get("tags", [])]
HasTag(r, tag_constraint) == InList(tag_constraint, Get(r, "tags", <<>>))

FilterByTag(root_list, tag_constraint) ==
    SelectSeq(root_list, LAMBDA r : HasTag(r, tag_constraint))

\* filtered_roots[category]
FilteredRoots(category, constraints, roots) ==
    IF category \in DOMAIN constraints
    THEN FilterByTag(roots[category], constraints[category])
    ELSE roots[category]

\* itertools.product(*root_lists): the last list varies fastest
RECURSIVE PrependEach(_, _, _)
PrependEach(list, i, combos) ==
    IF i > Len(list) THEN <<>>
    ELSE [k \in 1..Len(combos) |-> <<list[i]>> \o combos[k]]
            \o PrependEach(list, i + 1, combos)

\* mutant: the first root of every list is never chosen
RECURSIVE ProductOffByOne(_)
ProductOffByOne(root_lists) ==
    IF root_lists = <<>> THEN << <<>> >>
    ELSE PrependEach(Head(root_lists), 2, ProductOffByOne(Tail(root_lists)))

RECURSIVE Product(_)
Product(root_lists) ==
    IF root_lists = <<>> THEN << <<>> >>
    ELSE PrependEach(Head(root_lists), 1, Product(Tail(root_lists)))

\* the placeholder text that is replaced for a category
Placeholder(category, constraints) ==
    IF category \in DOMAIN constraints
    THEN <<"{">> \o category \o <<":">> \o constraints[category] \o <<"}">>
    ELSE <<"{">> \o category \o <<"}">>

\* the name after the first i iterations of the substitution loop
RECURSIVE Substitute(_, _, _, _, _)
Substitute(template, categories, constraints, combo, i) ==
    IF i = 0 THEN template
    ELSE Replace(Substitute(template, categories, constraints, combo, i - 1),
                 Placeholder(categories[i], constraints),
                 combo[i]["word"])

\* all_tags after the loop: the tags of the chosen roots, in order
RECURSIVE CollectTags(_, _)
CollectTags(combo, i) ==
    IF i = 0 THEN <<>>
    ELSE CollectTags(combo, i - 1) \o Get(combo[i], "tags", <<>>)

\* one (name, all_tags) result
MakeCandidate(template, categories, constraints, combo) ==
    [name |-> Substitute(template, categories, constraints, combo, Len(categories)),
     tags |-> CollectTags(combo, Len(categories))]

\* the early `return []` of a referenced category that is not in roots
MissingCategory(categories, roots) ==
    \E i \in 1..Len(categories) : categories[i] \notin DOMAIN roots

\* the early `return []` of a constrained category without a qualifying root
EmptyConstraint(categories, constraints, roots) ==
    \E i \in 1..Len(categories) :
        /\ categories[i] \in DOMAIN constraints
        /\ FilteredRoots(categories[i], constraints, roots) = <<>>

\* a reference to a list object: the tag list of the root at an index of a
\* category of the mapping, or a list the call has created
NewList == [category |-> <<>>, index |-> 0]
TagsOfRoot(category, index) == [category |-> category, index |-> index]

\* mutant: all_tags starts as the tag list of the first chosen root
AllTagsAliased(mapping, categories, combo) ==
    IF "tags" \in DOMAIN mapping[categories[1]][combo[1]]
    THEN TagsOfRoot(categories[1], combo[1])
    ELSE NewList

\* all_tags = []
AllTags(mapping, categories, combo) == NewList

\* the mapping after target.extend(tags)
ExtendList(mapping, target, tags) ==
    IF target = NewList THEN mapping
    ELSE [mapping EXCEPT ![target.category][target.index].tags = @ \o tags]

\* the indices of the roots of filtered_roots[category] in roots[category]:
\* the filtered list holds the root dictionaries themselves
QualifyingIndices(category, constraints, mapping) ==
    LET indices == [k \in 1..Len(mapping[category]) |-> k]
    IN  IF category \in DOMAIN constraints
        THEN SelectSeq(indices,
                       LAMBDA k : HasTag(mapping[category][k], constraints[category]))
        ELSE indices

\* the mapping after the loop `for i, category in enumerate(categories)` of
\* one combination, from its i-th iteration on
RECURSIVE CollectInto(_, _, _, _, _)
CollectInto(mapping, categories, combo, i, target) ==
    IF i > Len(categories) THEN mapping
    ELSE CollectInto(
             ExtendList(mapping, target,
                        Get(mapping[categories[i]][combo[i]], "tags", <<>>)),
             categories, combo, i + 1, target)

\* the mapping after `for combo in combinations`, from the k-th combination on
RECURSIVE RunCombinations(_, _, _, _)
RunCombinations(mapping, categories, combos, k) ==
    IF k > Len(combos) THEN mapping
    ELSE RunCombinations(
             CollectInto(mapping, categories, combos[k], 1,
                         AllTags(mapping, categories, combos[k])),
             categories, combos, k + 1)

\* the root mapping as _apply_template leaves it: what its statements write
\* to the objects the mapping holds
RootsAfterTemplate(template, mapping) ==
    LET matches == FindAll(template)
        categories == CategoriesOf(matches)
        constraints == ConstraintsOf(matches)
    IN  IF matches = <<>> THEN mapping
        ELSE IF MissingCategory(categories, mapping) THEN mapping
        ELSE IF EmptyConstraint(categories, constraints, mapping) THEN mapping
        ELSE RunCombinations(
                 mapping, categories,
                 Product([i \in 1..Len(categories) |->
                             QualifyingIndices(categories[i], constraints, mapping)]),
                 1)

_apply_template(template, roots) ==
    LET matches == FindAll(template)
        categories == CategoriesOf(matches)
        constraints == ConstraintsOf(matches)
        root_lists == [i \in 1..Len(categories) |->
                          FilteredRoots(categories[i], constraints, roots)]
        combinations == Product(root_lists)
    IN  IF matches = <<>> THEN <<[name |-> template, tags |-> <<>>]>>
        ELSE IF MissingCategory(categories, roots) THEN <<>>
        ELSE IF EmptyConstraint(categories, constraints, roots) THEN <<>>
        ELSE [k \in 1..Len(combinations) |->
                 MakeCandidate(template, categories, constraints, combinations[k])]

(***************************************************************************)
(* State                                                                   *)
(***************************************************************************)
VARIABLES
    styles,             \* ConfigManager.styles      (styles.yaml: styles)
    filters,            \* ConfigManager.filters     (styles.yaml: filters)
    word_roots,         \* ConfigManager.word_roots  (styles.yaml: word_roots)
    pc,                 \* position of the running call
    style_name,         \* argument of generate / check_tag_compatibility
    roots,              \* argument of generate
    count,              \* argument of generate
    existing_names,     \* argument of generate
    templates,          \* generate: templates
    style_config,       \* generate: style_config
    style_filters,      \* generate: style_filters
    ti,                 \* generate: index of the next template of the loop
    expanded,           \* generate: `candidates` of every loop iteration so far
    all_candidates,     \* generate: all_candidates
    verdicts,           \* _apply_filters: where each candidate left the loop body
    filtered_candidates,\* generate: filtered_candidates
    unique_candidates,  \* generate: unique_candidates
    result,             \* generate: result
    tags1,              \* argument of check_tag_compatibility
    tags2,              \* argument of check_tag_compatibility
    compatible,         \* return value of check_tag_compatibility
    previous,           \* history: arguments and outcome of the last completed generate
    roots_cache,        \* WordRootManager.roots_cache
    root_files,         \* the files {style}_roots.yaml of WordRootManager.data_dir
    thread,             \* per thread: the WordRootManager call it runs, its locals
    served,             \* history: per style the mapping get_roots last returned and the
                        \* operation that loaded or generated it, until invalidated
    client,             \* GLMClient: its fields, and the generate call it runs
    name_files,         \* the files {style}_names.txt of StorageManager.base_dir
    appended,           \* history: per style the names given to append_names so far
    listed,             \* the last list_names call: its arguments and return value
    scoring,            \* ScorePipeline: its fields, and the score_style call it runs
    score_files,        \* the files {style}_scores.txt, _high_scores.txt, _score_stats.txt
    pipeline            \* GenerationPipeline: the generate_for_style call it runs

cfgVars == <<styles, filters, word_roots>>
argVars == <<style_name, roots, count, existing_names>>
genVars == <<templates, style_config, style_filters, ti, expanded, all_candidates,
             verdicts, filtered_candidates, unique_candidates, result>>
tagVars == <<tags1, tags2, compatible>>
runVars == <<previous>>
storeVars == <<roots_cache, root_files, thread, served>>
storageVars == <<name_files, appended, listed>>
scoreVars == <<scoring, score_files>>
ioVars == <<client, storageVars, scoreVars, pipeline>>
vars == <<cfgVars, pc, argVars, genVars, tagVars, runVars, storeVars, ioVars>>

(***************************************************************************)
(* ConfigManager accessors                                                 *)
(***************************************************************************)
\* `if style` / `if not templates`: None, {} and [] are falsy.  A style that
\* is not configured (styles.get returns None) is the empty dict here: every
\* use of the value is `if not style`, `style or {}` or `style and ...`.
Truthy(d) == DOMAIN d # {}

get_style(name) == Get(styles, name, EmptyDict)

get_word_root_templates(name) ==
    LET style == get_style(name)
    IN  IF Truthy(style) /\ "templates" \in DOMAIN style
        THEN Get(style, "templates", <<>>)
        ELSE Get(Get(word_roots, "templates", EmptyDict), name, <<>>)

NoTags == [available |-> <<>>, conflicts |-> <<>>]

get_style_tags(name) ==
    LET style == get_style(name)
    IN  IF ~Truthy(style) THEN NoTags ELSE Get(style, "tags", NoTags)

get_style_filters(name) ==
    LET style == get_style(name)
    IN  IF Truthy(style) /\ "filters" \in DOMAIN style
        THEN Get(style, "filters", EmptyDict)
        ELSE [forbid_duplicate_chars |-> Get(filters, "forbid_duplicate_chars", TRUE),
              forbidden_combinations |->
                  Get(Get(filters, "forbidden_combinations", EmptyDict), name, <<>>)]

(***************************************************************************)
(* TagManager                                                              *)
(***************************************************************************)
get_conflicts(name) == Get(get_style_tags(name), "conflicts", <<>>)

\* mutant: the tag system is enabled by declared conflicts
has_tag_system_by_conflicts(name) == Len(get_conflicts(name)) > 0

has_tag_system(name) == Len(Get(get_style_tags(name), "available", <<>>)) > 0

\* mutant: only conflicts across the two lists are found
check_tag_compatibility_cross(t1, t2, name) ==
    LET tag_config == get_style_tags(name)
        conflicts == Get(tag_config, "conflicts", <<>>)
    IN  ~\E k \in 1..Len(conflicts) :
            /\ Len(conflicts[k]) >= 2
            /\ \/ conflicts[k][1] \in ToSet(t1) /\ conflicts[k][2] \in ToSet(t2)
               \/ conflicts[k][1] \in ToSet(t2) /\ conflicts[k][2] \in ToSet(t1)

check_tag_compatibility(t1, t2, name) ==
    LET tag_config == get_style_tags(name)
        conflicts == Get(tag_config, "conflicts", <<>>)
        all_tags == ToSet(t1 \o t2)
    IN  ~\E k \in 1..Len(conflicts) :
            /\ Len(conflicts[k]) >= 2
            /\ conflicts[k][1] \in all_tags
            /\ conflicts[k][2] \in all_tags

(***************************************************************************)
(* NicknameGenerator: templates and filters                                *)
(***************************************************************************)
DefaultTemplate == <<"{", "A", "}", "{", "B", "}">>

_get_templates(name) ==
    LET configured == get_word_root_templates(name)
    IN  IF configured = <<>> THEN <<DefaultTemplate>> ELSE configured

DefaultLengthMin == 2
DefaultLengthMax == 6

\* mutant: the lower bound is exclusive
LengthOkExclusive(name, config) ==
    LET min_len == Get(config, "length_min", DefaultLengthMin)
        max_len == Get(config, "length_max", DefaultLengthMax)
    IN  min_len < Len(name) /\ Len(name) <= max_len

LengthOk(name, config) ==
    LET min_len == Get(config, "length_min", DefaultLengthMin)
        max_len == Get(config, "length_max", DefaultLengthMax)
    IN  min_len <= Len(name) /\ Len(name) <= max_len

\* mutant: a character that occurs twice anywhere in the name
_has_duplicate_chars_anywhere(name) ==
    \E i, j \in 1..Len(name) : i # j /\ name[i] = name[j]

_has_duplicate_chars(name) == \E i \in 1..(Len(name) - 1) : name[i] = name[i + 1]

\* mutant: every element of a forbidden list occurs somewhere in the name
_is_forbidden_combination_scattered(name, forbidden_list) ==
    \E k \in 1..Len(forbidden_list) :
        \A n \in 1..Len(forbidden_list[k]) : Contains(name, forbidden_list[k][n])

_is_forbidden_combination(name, forbidden_list) ==
    \E k \in 1..Len(forbidden_list) : Contains(name, Join(forbidden_list[k]))

\* mutant: one member of a conflict pair is enough to reject
_check_tag_compatibility_either(tags, name) ==
    IF tags = <<>> THEN TRUE
    ELSE LET conflicts == get_conflicts(name)
             tag_set == ToSet(tags)
         IN  \A k \in 1..Len(conflicts) :
                Len(conflicts[k]) >= 2 =>
                    ~(conflicts[k][1] \in tag_set \/ conflicts[k][2] \in tag_set)

_check_tag_compatibility_internal(tags, name) ==
    IF tags = <<>> THEN TRUE
    ELSE LET conflicts == get_conflicts(name)
             tag_set == ToSet(tags)
         IN  \A k \in 1..Len(conflicts) :
                Len(conflicts[k]) >= 2 =>
                    ~(conflicts[k][1] \in tag_set /\ conflicts[k][2] \in tag_set)

\* the `continue` at which the loop body of _apply_filters leaves a candidate,
\* or "keep" when it reaches filtered.append(name)
FilterStage(cand, config, filters_config, name) ==
    LET forbid_duplicate == Get(filters_config, "forbid_duplicate_chars", TRUE)
        forbidden_combinations == Get(filters_config, "forbidden_combinations", <<>>)
    IN  IF ~LengthOk(cand.name, config) THEN "length"
        ELSE IF forbid_duplicate /\ _has_duplicate_chars(cand.name) THEN "duplicate"
        ELSE IF _is_forbidden_combination(cand.name, forbidden_combinations) THEN "forbidden"
        ELSE IF /\ has_tag_system(name) /\ cand.tags # <<>>
                /\ ~_check_tag_compatibility_internal(cand.tags, name) THEN "tag"
        ELSE "keep"

Stages(candidates, config, filters_config, name) ==
    [i \in 1..Len(candidates) |-> FilterStage(candidates[i], config, filters_config, name)]

\* mutant: a name is kept only when no candidate bearing it is rejected
KeptNamesUnlessRejected(candidates, stages) ==
    LET rejected ==
            {candidates[i].name : i \in {k \in 1..Len(candidates) : stages[k] # "keep"}}
        kept == {i \in 1..Len(candidates) : candidates[i].name \notin rejected}
    IN  [i \in 1..Cardinality(kept) |->
            candidates[CHOOSE k \in kept :
                           Cardinality({m \in kept : m < k}) = i - 1].name]

\* the names appended to `filtered`, in candidate order
RECURSIVE KeptNames(_, _)
KeptNames(candidates, stages) ==
    IF candidates = <<>> THEN <<>>
    ELSE (IF Head(stages) = "keep" THEN <<Head(candidates).name>> ELSE <<>>)
            \o KeptNames(Tail(candidates), Tail(stages))

_apply_filters(candidates, config, filters_config, name) ==
    KeptNames(candidates, Stages(candidates, config, filters_config, name))

(***************************************************************************)
(* NicknameGenerator: deduplication, exclusion, sampling                   *)
(***************************************************************************)
\* mutant: list(filtered_candidates), every occurrence kept
DeduplicateKeepAll(names) ==
    [n \in ToSet(names) |-> Cardinality({i \in 1..Len(names) : names[i] = n})]

\* list(set(filtered_candidates)): every distinct name once, order unspecified
Deduplicate(names) == SetToBag(ToSet(names))

\* mutant: the exclusion step is skipped
ExcludeNothing(unique, existing) == unique

\* mutant: the generator also excludes the names its last call returned
ExcludeAlsoReturned(unique, existing) ==
    [n \in BagToSet(unique) \ (existing \cup previous.result) |-> unique[n]]

\* [name for name in unique_candidates if name not in existing_names],
\* skipped when existing_names is None or empty
ExcludeExisting(unique, existing) ==
    IF existing # {}
    THEN [n \in BagToSet(unique) \ existing |-> unique[n]]
    ELSE unique

\* the outcomes of random.sample(population, k) for 0 <= k <= len(population):
\* k list positions, without replacement
SampleOutcomes(population, k) ==
    {b \in SubBag(population) : BagCardinality(b) = k}

(***************************************************************************)
(* The configuration the ConfigManager has loaded, and the call arguments  *)
(***************************************************************************)
\* tags
t == <<"t">>
u == <<"u">>
v == <<"v">>
Tags == {t, u, v}

\* category names
A == <<"A">>
B == <<"B">>

\* templates
T_A    == <<"{", "A", "}">>
T_AB   == <<"{", "A", "}", "{", "B", "}">>
T_BA   == <<"{", "B", "}", "{", "A", "}">>
T_AzB  == <<"{", "A", "}", "z", "{", "B", "}">>
T_zABz == <<"z", "{", "A", "}", "{", "B", "}", "z">>
T_AtB  == <<"{", "A", ":", "t", "}", "{", "B", "}">>
T_AC   == <<"{", "A", "}", "{", "C", "}">>
T_AA   == <<"{", "A", "}", "{", "A", "}">>
T_AtA  == <<"{", "A", ":", "t", "}", "{", "A", "}">>
T_AtAu == <<"{", "A", ":", "t", "}", "{", "A", ":", "u", "}">>
T_lit  == <<"z", "x">>

\* styles.yaml, section styles
StylesYaml ==
    [basic |->
        [description |-> "d", charset |-> "c", length_min |-> 2, length_max |-> 2,
         templates |-> <<T_AB>>,
         categories |-> <<[name |-> A, description |-> "d",
                           examples |-> << <<"x">>, <<"y">> >>,
                           count_per_category |-> 1]>>],
     lengths |->
        [description |-> "d", charset |-> "c", length_min |-> 2, length_max |-> 3,
         templates |-> <<T_A, T_AB, T_AzB, T_zABz>>,
         filters |-> [forbid_duplicate_chars |-> FALSE]],
     constrained |->
        [description |-> "d", charset |-> "c",
         templates |-> <<T_AtB, T_AC, T_BA>>,
         filters |-> EmptyDict,
         tags |-> [available |-> <<t, u, v>>, conflicts |-> << <<t, u>> >>]],
     tagged |->
        [description |-> "d", charset |-> "c", length_min |-> 2, length_max |-> 3,
         templates |-> <<T_AB>>,
         tags |-> [available |-> <<t, u>>, conflicts |-> << <<v>>, <<u, t>> >>]],
     conflicts_only |->
        [description |-> "d", charset |-> "c", length_min |-> 1, length_max |-> 2,
         templates |-> <<T_AB>>,
         tags |-> [available |-> <<>>, conflicts |-> << <<t, u>> >>]],
     no_conflicts |->
        [description |-> "d", charset |-> "c", length_min |-> 2, length_max |-> 4,
         templates |-> <<T_BA>>,
         tags |-> [available |-> <<t, u>>]],
     forbidden |->
        [description |-> "d", charset |-> "c", length_min |-> 2, length_max |-> 3,
         templates |-> <<T_AB, T_BA, T_AzB>>,
         filters |-> [forbidden_combinations |-> << <<<<"x">>, <<"y">>>> >>]],
     legacy |->
        [description |-> "d", charset |-> "c", length_min |-> 2, length_max |-> 2],
     bare |->
        [description |-> "d"],
     plain |->
        [description |-> "d", charset |-> "c", length_min |-> 1, length_max |-> 2,
         templates |-> <<T_A>>,
         categories |-> <<[name |-> A, description |-> "d",
                           examples |-> << <<"x">> >>,
                           count_per_category |-> 1]>>,
         filters |-> [forbid_duplicate_chars |-> FALSE]],
     quirks |->
        [description |-> "d", charset |-> "c", length_min |-> 1, length_max |-> 6,
         templates |-> <<T_AA, T_AtA, T_AtAu, T_lit>>]]

\* styles.yaml, section word_roots (the old structure)
WordRootsYaml ==
    [templates |-> [legacy |-> <<T_BA>>],
     categories |-> [legacy |-> <<[name |-> B, description |-> "d",
                                   examples |-> << <<"y">> >>,
                                   count_per_category |-> 2]>>]]

\* styles.yaml, section filters (the old structure): present or absent
FiltersYaml ==
    {[forbid_duplicate_chars |-> FALSE,
      forbidden_combinations |-> [basic |-> << <<<<"y">>, <<"x">>>> >>,
                                  legacy |-> << <<>> >>]],
     EmptyDict}

\* the style names a caller passes; "unknown" is not configured
StyleNames == DOMAIN StylesYaml \cup {"unknown"}

\* word roots
rx_t == [word |-> <<"x">>, tags |-> <<t>>]
ry_u == [word |-> <<"y">>, tags |-> <<u>>]
ry   == [word |-> <<"y">>]
PoolA == {rx_t, ry_u}
PoolB == {ry_u, ry}

\* the lists of at most n elements of S
RECURSIVE SeqsUpTo(_, _)
SeqsUpTo(S, n) ==
    IF n = 0 THEN {<<>>}
    ELSE LET shorter == SeqsUpTo(S, n - 1)
         IN  shorter \cup {Append(q, x) : q \in shorter, x \in S}

RootMaps ==
    {(A :> la) @@ (B :> lb) : la \in SeqsUpTo(PoolA, MaxRoots), lb \in SeqsUpTo(PoolB, MaxRoots)}

Counts == (-1)..MaxCount

ExistingNames == {{}, {<<"x", "y">>}}

TagLists == SeqsUpTo(Tags, MaxTags)

\* no generate call has completed yet
NoCall ==
    [called |-> FALSE, style_name |-> "", roots |-> EmptyDict, count |-> 0,
     existing_names |-> {}, unique |-> {}, result |-> {}]

\* the threads that call the WordRootManager
Threads == {1, 2}

\* a thread that runs no WordRootManager call; `roots` and `response` are the
\* locals of get_roots and _generate_roots, `read` and `generated` tell that
\* the call has looked for the root file and has called the GLM client
NoResponse == [error |-> ""]
IdleThread ==
    [op |-> "", style |-> "", at |-> "idle", roots |-> EmptyDict,
     response |-> NoResponse, returned |-> EmptyDict,
     read |-> FALSE, generated |-> FALSE]

\* no list_names call has returned yet
NotListed == [style |-> "", limit |-> 0, names |-> <<>>]

\* a ScorePipeline after __init__ whose scorer has the default batch size,
\* while no score_style call runs; `submitted` lists the batches given to
\* score_batch by the running call
DefaultBatchSize == 10
NewScorePipeline ==
    [batch_size |-> DefaultBatchSize, at |-> "idle", style |-> "", force |-> FALSE,
     all_names |-> <<>>, existing_scores |-> <<>>, names_to_score |-> <<>>,
     i |-> 0, new_scores |-> <<>>, failed |-> FALSE, interrupted |-> FALSE,
     submitted |-> <<>>, result |-> EmptyDict]

\* no score file exists
NoScoreFiles == [scores |-> EmptyDict, high |-> EmptyDict, stats |-> EmptyDict]

\* no generate_for_style call runs
\* `metadata` holds, per style, the count of every line written to
\* {style}_metadata.txt
IdlePipeline ==
    [at |-> "idle", style |-> "", count |-> 0, result |-> EmptyDict,
     metadata |-> EmptyDict]

\* Python values of the GLM client: None, a str, an int
PyNone == [none |-> TRUE]
PyStr(s) == [str |-> s]
ZeroTokens == [input |-> 0, output |-> 0, total |-> 0]

\* the defaults of GLMClient.__init__
DefaultMaxRetries == 3
DefaultRetryWaitBase == 2

\* a GLMClient after __init__ with the default arguments; `at` is the
\* position of the running generate call, `attempt` the loop variable,
\* `last_error` the local of _call_api_with_retry, `attempts` the outcome of
\* every _call_api so far and `waits` the arguments of every time.sleep
NewClient ==
    [max_retries |-> DefaultMaxRetries, retry_wait_base |-> DefaultRetryWaitBase,
     token_usage |-> ZeroTokens, at |-> "idle", attempt |-> 0,
     last_error |-> PyNone, attempts |-> <<>>, waits |-> <<>>,
     response |-> EmptyDict]

(***************************************************************************)
(* Init: the ConfigManager has loaded its files, no call is running        *)
(***************************************************************************)
Init ==
    /\ styles = StylesYaml
    /\ word_roots = WordRootsYaml
    /\ filters \in FiltersYaml
    /\ pc = "idle"
    /\ style_name = ""
    /\ roots = EmptyDict
    /\ count = 0
    /\ existing_names = {}
    /\ templates = <<>>
    /\ style_config = EmptyDict
    /\ style_filters = EmptyDict
    /\ ti = 0
    /\ expanded = <<>>
    /\ all_candidates = <<>>
    /\ verdicts = <<>>
    /\ filtered_candidates = <<>>
    /\ unique_candidates = EmptyBag
    /\ result = EmptyBag
    /\ tags1 = <<>>
    /\ tags2 = <<>>
    /\ compatible = TRUE
    /\ previous = NoCall
    /\ roots_cache = EmptyDict
    /\ root_files = EmptyDict
    /\ thread = [p \in Threads |-> IdleThread]
    /\ served = EmptyDict
    /\ client = NewClient
    /\ name_files = EmptyDict
    /\ appended = EmptyDict
    /\ listed = NotListed
    /\ scoring = NewScorePipeline
    /\ score_files = NoScoreFiles
    /\ pipeline = IdlePipeline

(***************************************************************************)
(* NicknameGenerator.generate                                              *)
(***************************************************************************)
\* the call, up to the start of the template loop (the `return []` of an
\* empty template list is dead: _get_templates never returns an empty list)
Generate(name, rts, cnt, existing) ==
    /\ pc = "idle"
    /\ style_name' = name
    /\ roots' = rts
    /\ count' = cnt
    /\ existing_names' = existing
    /\ templates' = _get_templates(name)
    /\ style_config' = get_style(name)
    /\ style_filters' = get_style_filters(name)
    /\ ti' = 1
    /\ expanded' = <<>>
    /\ all_candidates' = <<>>
    /\ verdicts' = <<>>
    /\ filtered_candidates' = <<>>
    /\ unique_candidates' = EmptyBag
    /\ result' = EmptyBag
    /\ pc' = IF _get_templates(name) = <<>> THEN "done" ELSE "expand"
    /\ UNCHANGED <<cfgVars, tagVars, runVars, storeVars, ioVars>>

\* mutant: a template without candidates empties the list
ExtendOrReset(list, candidates) ==
    IF candidates = <<>> THEN <<>> ELSE list \o candidates

\* all_candidates.extend(candidates)
Extend(list, candidates) == list \o candidates

\* the roots given to generate are the object the root cache holds: the
\* pipeline passes what get_roots returned
RootsAreCached == pipeline.at = "running"

\* one iteration of `for template in templates`
ExpandTemplate ==
    /\ pc = "expand"
    /\ ti <= Len(templates)
    /\ LET candidates == _apply_template(templates[ti], roots)
       IN  /\ all_candidates' = Extend(all_candidates, candidates)
           /\ expanded' = Append(expanded, candidates)
    /\ roots' = RootsAfterTemplate(templates[ti], roots)
    /\ roots_cache' = IF RootsAreCached
                      THEN (style_name :> roots') @@ roots_cache
                      ELSE roots_cache
    /\ ti' = ti + 1
    /\ UNCHANGED <<cfgVars, pc, style_name, count, existing_names, templates,
                   style_config, style_filters, verdicts, filtered_candidates,
                   unique_candidates, result, tagVars, runVars, root_files, thread,
                   served, ioVars>>

\* filtered_candidates = self._apply_filters(...)
Filter ==
    /\ pc = "expand"
    /\ ti > Len(templates)
    /\ verdicts' = Stages(all_candidates, style_config, style_filters, style_name)
    /\ filtered_candidates' =
           _apply_filters(all_candidates, style_config, style_filters, style_name)
    /\ pc' = "dedup"
    /\ UNCHANGED <<cfgVars, argVars, templates, style_config, style_filters, ti,
                   expanded, all_candidates, unique_candidates, result, tagVars, runVars, storeVars, ioVars>>

\* unique_candidates = list(set(filtered_candidates))
Dedup ==
    /\ pc = "dedup"
    /\ unique_candidates' = Deduplicate(filtered_candidates)
    /\ pc' = "exclude"
    /\ UNCHANGED <<cfgVars, argVars, templates, style_config, style_filters, ti,
                   expanded, all_candidates, verdicts, filtered_candidates, result,
                   tagVars, runVars, storeVars, ioVars>>

\* if existing_names: unique_candidates = [...]
Exclude ==
    /\ pc = "exclude"
    /\ unique_candidates' = ExcludeExisting(unique_candidates, existing_names)
    /\ pc' = "sample"
    /\ UNCHANGED <<cfgVars, argVars, templates, style_config, style_filters, ti,
                   expanded, all_candidates, verdicts, filtered_candidates, result,
                   tagVars, runVars, storeVars, ioVars>>

\* len(unique_candidates) <= count: result = unique_candidates
ReturnAll ==
    /\ pc = "sample"
    /\ BagCardinality(unique_candidates) <= count
    /\ result' = unique_candidates
    /\ pc' = "done"
    /\ UNCHANGED <<cfgVars, argVars, templates, style_config, style_filters, ti,
                   expanded, all_candidates, verdicts, filtered_candidates,
                   unique_candidates, tagVars, runVars, storeVars, ioVars>>

\* result = random.sample(unique_candidates, count), 0 <= count < len
Sample ==
    /\ pc = "sample"
    /\ BagCardinality(unique_candidates) > count
    /\ count >= 0
    /\ result' \in SampleOutcomes(unique_candidates, count)
    /\ pc' = "done"
    /\ UNCHANGED <<cfgVars, argVars, templates, style_config, style_filters, ti,
                   expanded, all_candidates, verdicts, filtered_candidates,
                   unique_candidates, tagVars, runVars, storeVars, ioVars>>

\* random.sample(unique_candidates, count) with count < 0 raises ValueError,
\* which generate does not catch
SampleRaises ==
    /\ pc = "sample"
    /\ BagCardinality(unique_candidates) > count
    /\ count < 0
    /\ pc' = "raised"
    /\ UNCHANGED <<cfgVars, argVars, genVars, tagVars, runVars, storeVars, ioVars>>

(***************************************************************************)
(* TagManager.check_tag_compatibility                                      *)
(***************************************************************************)
CheckPair(l1, l2, name) ==
    /\ pc = "idle"
    /\ style_name' = name
    /\ tags1' = l1
    /\ tags2' = l2
    /\ compatible' = check_tag_compatibility(l1, l2, name)
    /\ pc' = "checked"
    /\ UNCHANGED <<cfgVars, roots, count, existing_names, genVars, runVars, storeVars, ioVars>>

\* a caller starts generate with any arguments
CallGenerate ==
    /\ pc = "idle"
    /\ \E name \in StyleNames, rts \in RootMaps, cnt \in Counts,
          existing \in ExistingNames :
           Generate(name, rts, cnt, existing)

\* a caller starts check_tag_compatibility with any arguments
CallCheckPair ==
    /\ pc = "idle"
    /\ \E l1 \in TagLists, l2 \in TagLists, name \in StyleNames :
           CheckPair(l1, l2, name)

Next ==
    \/ CallGenerate
    \/ ExpandTemplate
    \/ Filter
    \/ Dedup
    \/ Exclude
    \/ ReturnAll
    \/ Sample
    \/ SampleRaises
    \/ CallCheckPair

Spec == Init /\ [][Next]_vars

(***************************************************************************)
(* Two calls of generate with the same arguments                           *)
(***************************************************************************)
\* `return result` of the first call: its arguments and outcome are recorded
Return ==
    /\ pc = "done"
    /\ ~previous.called
    /\ previous' =
           [called |-> TRUE, style_name |-> style_name, roots |-> roots,
            count |-> count, existing_names |-> existing_names,
            unique |-> BagToSet(unique_candidates), result |-> BagToSet(result)]
    /\ pc' = "idle"
    /\ UNCHANGED <<cfgVars, argVars, genVars, tagVars, storeVars, ioVars>>

\* the first call, with any arguments
CallFirst ==
    /\ pc = "idle"
    /\ ~previous.called
    /\ \E name \in StyleNames, rts \in RootMaps, cnt \in Counts,
          existing \in ExistingNames :
           Generate(name, rts, cnt, existing)

\* the second call, with the arguments of the first
CallAgain ==
    /\ pc = "idle"
    /\ previous.called
    /\ Generate(previous.style_name, previous.roots, previous.count,
                previous.existing_names)

NextTwoRuns ==
    \/ CallFirst
    \/ CallAgain
    \/ ExpandTemplate
    \/ Filter
    \/ Dedup
    \/ Exclude
    \/ ReturnAll
    \/ Sample
    \/ SampleRaises
    \/ Return

SpecTwoRuns == Init /\ [][NextTwoRuns]_vars

(***************************************************************************)
(* WordRootManager: configuration, files and GLM responses                 *)
(***************************************************************************)
get_word_root_categories(name) ==
    LET style == get_style(name)
    IN  IF Truthy(style) /\ "categories" \in DOMAIN style
        THEN Get(style, "categories", <<>>)
        ELSE Get(Get(word_roots, "categories", EmptyDict), name, <<>>)

\* count_per_category when a category does not configure it
DefaultCount == 25

\* the category used when a style configures none (D stands for the name,
\* c and g for the two example words of the source)
DefaultCategories ==
    <<[name |-> <<"D">>, description |-> "d", examples |-> << <<"c">>, <<"g">> >>,
       count_per_category |-> DefaultCount]>>

\* d[k] = v and del d[k] on a dict
Put(d, k, value) == (k :> value) @@ d
Del(d, k) == [x \in DOMAIN d \ {k} |-> d[x]]

\* list[:n], n >= 0
Take(list, n) == SubSeq(list, 1, IF n < Len(list) THEN n ELSE Len(list))

\* the argument None of clear_cache; `if style_name:` is false for it and
\* for the empty string
None == "None"
Falsy(name) == name \in {None, ""}

\* entries of a root list as YAML or JSON hold them: a string, a mapping, or
\* something else (a number)
S_x  == [str |-> <<"x">>]
D_y  == [dict |-> [word |-> <<"y">>]]
D_xt == [dict |-> [word |-> <<"x">>, tags |-> <<t>>]]
D_t  == [dict |-> [tags |-> <<t>>]]
N_7  == [int |-> 7]
RawLists == {<<S_x, N_7, D_y>>, <<D_t, D_xt>>, <<>>}

\* a root file: whether yaml.safe_load succeeds, and the document it yields
\* ({} for an empty file)
FileOf(doc) == [readable |-> TRUE, doc |-> doc]
Unreadable == [readable |-> FALSE, doc |-> EmptyDict]
EmptyFile == FileOf(EmptyDict)
FileImages ==
    {Unreadable, EmptyFile} \cup {FileOf([categories |-> (A :> l)]) : l \in RawLists}

\* what GLMClient.generate returns: an error, or a content whose text
\* (after the removal of a markdown fence) is no JSON, a JSON value that is no
\* object, or a JSON object; a member of the object is a list or something
\* else (a string)
ParsedMaps ==
    {(A :> [list |-> l]) : l \in RawLists}
        \cup {(A :> [str |-> <<"x">>]), (B :> [list |-> <<S_x>>]), EmptyDict}
Responses ==
    {[error |-> "failed"], [content |-> [text |-> "invalid"]],
     [content |-> [json |-> [list |-> <<>>]]]}
        \cup {[content |-> [json |-> [dict |-> parsed]]] : parsed \in ParsedMaps}

\* the styles whose roots are asked for
StoreStyles == {"basic", "legacy"}

(***************************************************************************)
(* WordRootManager._load_roots_from_file                                   *)
(***************************************************************************)
\* mutant: a mapping without tags is appended as it is
RECURSIVE LoadedRootsAsIs(_)
LoadedRootsAsIs(roots_list) ==
    IF roots_list = <<>> THEN <<>>
    ELSE LET root_item == Head(roots_list)
         IN  (IF "str" \in DOMAIN root_item
              THEN <<[word |-> root_item.str, tags |-> <<>>]>>
              ELSE IF "dict" \in DOMAIN root_item /\ "word" \in DOMAIN root_item.dict
              THEN <<root_item.dict>>
              ELSE <<>>)
                 \o LoadedRootsAsIs(Tail(roots_list))

\* processed_roots of one category
RECURSIVE LoadedRoots(_)
LoadedRoots(roots_list) ==
    IF roots_list = <<>> THEN <<>>
    ELSE LET root_item == Head(roots_list)
         IN  (IF "str" \in DOMAIN root_item
              THEN <<[word |-> root_item.str, tags |-> <<>>]>>
              ELSE IF "dict" \in DOMAIN root_item /\ "word" \in DOMAIN root_item.dict
              THEN <<IF "tags" \notin DOMAIN root_item.dict
                     THEN root_item.dict @@ [tags |-> <<>>]
                     ELSE root_item.dict>>
              ELSE <<>>)
                 \o LoadedRoots(Tail(roots_list))

\* found = FALSE is the return value None: no file, or an exception while
\* the file is read
_load_roots_from_file(name) ==
    IF name \notin DOMAIN root_files \/ ~root_files[name].readable
    THEN [found |-> FALSE, roots |-> EmptyDict]
    ELSE LET data == root_files[name].doc
             categories == Get(data, "categories", EmptyDict)
         IN  [found |-> TRUE,
              roots |-> [category_name \in DOMAIN categories |->
                            LoadedRoots(categories[category_name])]]

(***************************************************************************)
(* WordRootManager._generate_roots                                         *)
(***************************************************************************)
\* the roots of the fallback loops: the first `count` examples per category
RECURSIVE ExampleRoots(_)
ExampleRoots(categories_config) ==
    IF categories_config = <<>> THEN EmptyDict
    ELSE LET n == Len(categories_config)
             category == categories_config[n]
             count_per == Get(category, "count_per_category", DefaultCount)
             examples == Take(Get(category, "examples", <<>>), count_per)
         IN  Put(ExampleRoots(SubSeq(categories_config, 1, n - 1)),
                 category.name,
                 [i \in 1..Len(examples) |-> [word |-> examples[i], tags |-> <<>>]])

\* processed_roots of one category of the parsed answer
RECURSIVE GeneratedRoots(_)
GeneratedRoots(category_roots) ==
    IF category_roots = <<>> THEN <<>>
    ELSE LET root_item == Head(category_roots)
         IN  (IF "str" \in DOMAIN root_item
              THEN <<[word |-> root_item.str, tags |-> <<>>]>>
              ELSE IF "dict" \in DOMAIN root_item /\ "word" \in DOMAIN root_item.dict
              THEN <<IF "tags" \notin DOMAIN root_item.dict
                     THEN root_item.dict @@ [tags |-> <<>>]
                     ELSE root_item.dict>>
              ELSE <<>>)
                 \o GeneratedRoots(Tail(category_roots))

\* while len(processed_roots) < count and examples: append an example
RECURSIVE PadWithExamples(_, _, _)
PadWithExamples(processed_roots, count_per, examples) ==
    IF Len(processed_roots) < count_per /\ examples # <<>>
    THEN PadWithExamples(
             Append(processed_roots,
                    [word |-> examples[(Len(processed_roots) % Len(examples)) + 1],
                     tags |-> <<>>]),
             count_per, examples)
    ELSE processed_roots

\* roots[category_name] of the success path
CategoryRoots(category, parsed_roots) ==
    LET count_per == Get(category, "count_per_category", DefaultCount)
        examples == Get(category, "examples", <<>>)
        answer == Get(parsed_roots, category.name, [list |-> <<>>])
        category_roots ==
            IF "list" \in DOMAIN answer THEN answer.list
            ELSE [i \in 1..Len(examples) |-> [str |-> examples[i]]]
    IN  PadWithExamples(GeneratedRoots(category_roots), count_per, examples)

RECURSIVE ParsedRoots(_, _)
ParsedRoots(categories_config, parsed_roots) ==
    IF categories_config = <<>> THEN EmptyDict
    ELSE LET n == Len(categories_config)
             category == categories_config[n]
         IN  Put(ParsedRoots(SubSeq(categories_config, 1, n - 1), parsed_roots),
                 category.name, CategoryRoots(category, parsed_roots))

_generate_roots(name, response) ==
    LET configured == get_word_root_categories(name)
        categories_config ==
            IF configured = <<>> THEN DefaultCategories ELSE configured
        content == Get(response, "content", [text |-> ""])
    IN  IF "error" \in DOMAIN response /\ response.error # ""
        THEN ExampleRoots(categories_config)
        ELSE IF "json" \notin DOMAIN content THEN ExampleRoots(categories_config)
        ELSE IF "dict" \notin DOMAIN content.json THEN ExampleRoots(categories_config)
        ELSE ParsedRoots(categories_config, content.json.dict)

(***************************************************************************)
(* WordRootManager._save_roots_to_file                                     *)
(***************************************************************************)
\* sum(len(roots_list) for roots_list in roots.values())
RECURSIVE TotalCount(_, _)
TotalCount(mapping, names) ==
    IF names = {} THEN 0
    ELSE LET c == CHOOSE x \in names : TRUE
         IN  Len(mapping[c]) + TotalCount(mapping, names \ {c})

\* the document yaml.dump writes (without the time stamp): every root is
\* written as a mapping
SavedFile(name, mapping) ==
    FileOf([metadata |-> [style |-> name,
                          total_count |-> TotalCount(mapping, DOMAIN mapping)],
            categories |-> [c \in DOMAIN mapping |->
                               [i \in 1..Len(mapping[c]) |-> [dict |-> mapping[c][i]]]]])

(***************************************************************************)
(* WordRootManager: get_roots, clear_cache, regenerate_roots               *)
(***************************************************************************)
\* what the root store leaves alone
generatorVars == <<cfgVars, pc, argVars, genVars, tagVars, runVars>>

\* the thread is inside a call
Running(p) == thread[p].at \notin {"idle", "returned", "raised"}

\* no thread is inside a call
Quiet == \A p \in Threads : ~Running(p)

\* a caller starts an operation on a thread that is inside none
Begin(p, op, name, at) ==
    /\ ~Running(p)
    /\ thread' = [thread EXCEPT
                     ![p] = [IdleThread EXCEPT !.op = op, !.style = name, !.at = at]]

CallGetRoots(p, name) ==
    /\ Begin(p, "get_roots", name, "cache_check")
    /\ UNCHANGED <<generatorVars, ioVars, roots_cache, root_files, served>>

CallClearCache(p, name) ==
    /\ Begin(p, "clear_cache", name, "clear")
    /\ served' = IF Falsy(name) THEN EmptyDict ELSE Del(served, name)
    /\ UNCHANGED <<generatorVars, ioVars, roots_cache, root_files>>

CallRegenerateRoots(p, name) ==
    /\ Begin(p, "regenerate_roots", name, "clear")
    /\ served' = Del(served, name)
    /\ UNCHANGED <<generatorVars, ioVars, roots_cache, root_files>>

\* where a thread continues when clear_cache returns: in its caller, or in
\* regenerate_roots
AfterClear(p) == IF thread[p].op = "clear_cache" THEN "returned" ELSE "exists"

\* clear_cache: the tests of style_name, and roots_cache.clear()
ClearCache(p) ==
    /\ thread[p].at = "clear"
    /\ IF Falsy(thread[p].style)
       THEN /\ roots_cache' = EmptyDict
            /\ thread' = [thread EXCEPT ![p].at = AfterClear(p)]
       ELSE /\ UNCHANGED roots_cache
            /\ thread' = [thread EXCEPT ![p].at =
                             IF thread[p].style \in DOMAIN roots_cache
                             THEN "clear_del" ELSE AfterClear(p)]
    /\ UNCHANGED <<generatorVars, ioVars, root_files, served>>

\* clear_cache: del self.roots_cache[style_name], a KeyError when the entry
\* has gone since the test
ClearDel(p) ==
    /\ thread[p].at = "clear_del"
    /\ IF thread[p].style \in DOMAIN roots_cache
       THEN /\ roots_cache' = Del(roots_cache, thread[p].style)
            /\ thread' = [thread EXCEPT ![p].at = AfterClear(p)]
       ELSE /\ UNCHANGED roots_cache
            /\ thread' = [thread EXCEPT ![p].at = "raised"]
    /\ UNCHANGED <<generatorVars, ioVars, root_files, served>>

\* mutant: regenerate_roots keeps the old file
UnlinkCheckSkipped(p) ==
    /\ thread[p].at = "exists"
    /\ thread' = [thread EXCEPT ![p].at = "cache_check"]
    /\ UNCHANGED <<generatorVars, ioVars, roots_cache, root_files, served>>

\* regenerate_roots: if file_path.exists()
UnlinkCheck(p) ==
    /\ thread[p].at = "exists"
    /\ thread' = [thread EXCEPT ![p].at =
                     IF thread[p].style \in DOMAIN root_files
                     THEN "unlink" ELSE "cache_check"]
    /\ UNCHANGED <<generatorVars, ioVars, roots_cache, root_files, served>>

\* regenerate_roots: file_path.unlink(), a FileNotFoundError when the file
\* has gone since the test
Unlink(p) ==
    /\ thread[p].at = "unlink"
    /\ IF thread[p].style \in DOMAIN root_files
       THEN /\ root_files' = Del(root_files, thread[p].style)
            /\ thread' = [thread EXCEPT ![p].at = "cache_check"]
       ELSE /\ UNCHANGED root_files
            /\ thread' = [thread EXCEPT ![p].at = "raised"]
    /\ UNCHANGED <<generatorVars, ioVars, roots_cache, served>>

\* mutant: the cache is never consulted
CacheCheckMiss(p) ==
    /\ thread[p].at = "cache_check"
    /\ thread' = [thread EXCEPT ![p].at = "load"]
    /\ UNCHANGED <<generatorVars, ioVars, roots_cache, root_files, served>>

\* get_roots: if style_name in self.roots_cache
CacheCheck(p) ==
    /\ thread[p].at = "cache_check"
    /\ thread' = [thread EXCEPT ![p].at =
                     IF thread[p].style \in DOMAIN roots_cache
                     THEN "cache_read" ELSE "load"]
    /\ UNCHANGED <<generatorVars, ioVars, roots_cache, root_files, served>>

\* get_roots: return self.roots_cache[style_name], a KeyError when the entry
\* has gone since the test
CacheRead(p) ==
    /\ thread[p].at = "cache_read"
    /\ IF thread[p].style \in DOMAIN roots_cache
       THEN /\ thread' = [thread EXCEPT ![p].at = "returned",
                                        ![p].returned = roots_cache[thread[p].style]]
            /\ served' = Put(served, thread[p].style,
                             [roots |-> roots_cache[thread[p].style],
                              by |-> IF thread[p].style \in DOMAIN served
                                     THEN served[thread[p].style].by
                                     ELSE thread[p].op])
       ELSE /\ thread' = [thread EXCEPT ![p].at = "raised"]
            /\ UNCHANGED served
    /\ UNCHANGED <<generatorVars, ioVars, roots_cache, root_files>>

\* get_roots: roots = self._load_roots_from_file(style_name)
LoadFile(p) ==
    /\ thread[p].at = "load"
    /\ LET loaded == _load_roots_from_file(thread[p].style)
       IN  thread' = [thread EXCEPT
                         ![p].read = TRUE,
                         ![p].roots = loaded.roots,
                         ![p].at = IF loaded.found THEN "cache_loaded" ELSE "generate"]
    /\ UNCHANGED <<generatorVars, ioVars, roots_cache, root_files, served>>

\* get_roots: the loaded roots are cached and returned
CacheLoaded(p) ==
    /\ thread[p].at = "cache_loaded"
    /\ roots_cache' = Put(roots_cache, thread[p].style, thread[p].roots)
    /\ thread' = [thread EXCEPT ![p].at = "returned", ![p].returned = thread[p].roots]
    /\ served' = Put(served, thread[p].style,
                     [roots |-> thread[p].roots, by |-> thread[p].op])
    /\ UNCHANGED <<generatorVars, ioVars, root_files>>

\* get_roots: roots = self._generate_roots(style_name), with the response
\* the GLM client gives
GenerateRoots(p, response) ==
    /\ thread[p].at = "generate"
    /\ thread' = [thread EXCEPT
                     ![p].generated = TRUE,
                     ![p].response = response,
                     ![p].roots = _generate_roots(thread[p].style, response),
                     ![p].at = "save"]
    /\ UNCHANGED <<generatorVars, ioVars, roots_cache, root_files, served>>

\* _save_roots_to_file: open(file_path, "w") leaves an empty file
SaveOpen(p) ==
    /\ thread[p].at = "save"
    /\ root_files' = Put(root_files, thread[p].style, EmptyFile)
    /\ thread' = [thread EXCEPT ![p].at = "dump", ![p].response = NoResponse]
    /\ UNCHANGED <<generatorVars, ioVars, roots_cache, served>>

\* _save_roots_to_file: yaml.dump
SaveDump(p) ==
    /\ thread[p].at = "dump"
    /\ root_files' = Put(root_files, thread[p].style,
                         SavedFile(thread[p].style, thread[p].roots))
    /\ thread' = [thread EXCEPT ![p].at = "cache_generated"]
    /\ UNCHANGED <<generatorVars, ioVars, roots_cache, served>>

\* get_roots: the generated roots are cached and returned
CacheGenerated(p) ==
    /\ thread[p].at = "cache_generated"
    /\ roots_cache' = Put(roots_cache, thread[p].style, thread[p].roots)
    /\ thread' = [thread EXCEPT ![p].at = "returned", ![p].returned = thread[p].roots]
    /\ served' = Put(served, thread[p].style,
                     [roots |-> thread[p].roots, by |-> thread[p].op])
    /\ UNCHANGED <<generatorVars, ioVars, root_files>>

\* between two calls somebody writes or removes a root file
FileEdited(name, image) ==
    /\ Quiet
    /\ root_files' = Put(root_files, name, image)
    /\ UNCHANGED <<generatorVars, ioVars, roots_cache, thread, served>>

FileDeleted(name) ==
    /\ Quiet
    /\ name \in DOMAIN root_files
    /\ root_files' = Del(root_files, name)
    /\ UNCHANGED <<generatorVars, ioVars, roots_cache, thread, served>>

\* the root store starts with an empty cache and an empty data directory
InitStore == Init /\ filters = EmptyDict

\* one thread calls the WordRootManager, one call after the other
Main == 1

NextStore ==
    \/ \E name \in StoreStyles : CallGetRoots(Main, name)
    \/ \E name \in StoreStyles \cup {None} : CallClearCache(Main, name)
    \/ \E name \in StoreStyles : CallRegenerateRoots(Main, name)
    \/ ClearCache(Main)
    \/ ClearDel(Main)
    \/ UnlinkCheck(Main)
    \/ Unlink(Main)
    \/ CacheCheck(Main)
    \/ CacheRead(Main)
    \/ LoadFile(Main)
    \/ CacheLoaded(Main)
    \/ \E response \in Responses : GenerateRoots(Main, response)
    \/ SaveOpen(Main)
    \/ SaveDump(Main)
    \/ CacheGenerated(Main)
    \/ \E name \in StoreStyles, image \in FileImages : FileEdited(name, image)
    \/ \E name \in StoreStyles : FileDeleted(name)

SpecStore == InitStore /\ [][NextStore]_vars

\* two threads share the WordRootManager: both call get_roots, the first
\* also regenerate_roots, for one style
SharedStyle == "basic"

NextStoreConcurrent ==
    \/ \E p \in Threads : CallGetRoots(p, SharedStyle)
    \/ CallRegenerateRoots(Main, SharedStyle)
    \/ \E p \in Threads : ClearCache(p)
    \/ \E p \in Threads : ClearDel(p)
    \/ \E p \in Threads : UnlinkCheck(p)
    \/ \E p \in Threads : Unlink(p)
    \/ \E p \in Threads : CacheCheck(p)
    \/ \E p \in Threads : CacheRead(p)
    \/ \E p \in Threads : LoadFile(p)
    \/ \E p \in Threads : CacheLoaded(p)
    \/ \E p \in Threads, response \in Responses : GenerateRoots(p, response)
    \/ \E p \in Threads : SaveOpen(p)
    \/ \E p \in Threads : SaveDump(p)
    \/ \E p \in Threads : CacheGenerated(p)

SpecStoreConcurrent == InitStore /\ [][NextStoreConcurrent]_vars

(***************************************************************************)
(* Vocabulary of the properties                                            *)
(***************************************************************************)
Min(a, b) == IF a <= b THEN a ELSE b

\* _apply_filters has just returned to generate
FiltersApplied == pc = "dedup"

\* generate is in its template loop, or has just left it
Expanding == pc = "expand"

\* the configuration of the style of the running call, read from styles.yaml
Configured == IF style_name \in DOMAIN styles THEN styles[style_name] ELSE EmptyDict
ConfiguredTags == Get(Configured, "tags", EmptyDict)
Available == Get(ConfiguredTags, "available", <<>>)
Conflicts == Get(ConfiguredTags, "conflicts", <<>>)
DeclaredPairs == {Conflicts[k] : k \in {n \in 1..Len(Conflicts) : Len(Conflicts[n]) = 2}}
LengthMin == Get(Configured, "length_min", DefaultLengthMin)
LengthMax == Get(Configured, "length_max", DefaultLengthMax)

\* some declared conflict pair has both of its members in the tag set
HoldsPair(tag_set) == \E pair \in DeclaredPairs : pair[1] \in tag_set /\ pair[2] \in tag_set

\* number of positions of a list that hold x
Occurrences(list, x) == Cardinality({i \in 1..Len(list) : list[i] = x})

\* U: the distinct names that pass all filters and are not excluded
EligibleNames ==
    {all_candidates[i].name : i \in {k \in DOMAIN verdicts : verdicts[k] = "keep"}}
        \ existing_names

\* some category of the root mapping holds the same word more than once
RepeatedWord ==
    \E c \in DOMAIN roots : \E i, j \in 1..Len(roots[c]) :
        i # j /\ roots[c][i].word = roots[c][j].word

(***************************************************************************)
(* C1                                                                      *)
(***************************************************************************)
\* C1: for count >= 0, generate returns exactly min(|U|, count) names, U the
\* set of distinct names that pass all filters and are not in the exclusion
\* set, and every returned name is an element of U.
C1_SamplingBound ==
    (pc = "done" /\ count >= 0) =>
        /\ BagCardinality(result) = Min(Cardinality(EligibleNames), count)
        /\ BagToSet(result) \subseteq EligibleNames

\* a draw of fewer names than are eligible, from a filtered list that holds a
\* name twice and a name that is excluded
C1_Witness ==
    /\ pc = "done"
    /\ count = 1
    /\ Cardinality(EligibleNames) > 1
    /\ Len(filtered_candidates) > Cardinality(ToSet(filtered_candidates))
    /\ ToSet(filtered_candidates) \cap existing_names # {}

(***************************************************************************)
(* C2                                                                      *)
(***************************************************************************)
\* C2: the list generate returns never holds the same name twice and never
\* holds a name of existing_names, also when a category holds a word twice.
C2_NoRepeatNoExisting ==
    pc = "done" =>
        \A n \in BagToSet(result) : CopiesIn(n, result) = 1 /\ n \notin existing_names

\* a non-empty result of a call whose roots repeat a word, whose filtered list
\* repeats a name and holds an excluded name
C2_Witness ==
    /\ pc = "done"
    /\ result # EmptyBag
    /\ RepeatedWord
    /\ Len(filtered_candidates) > Cardinality(ToSet(filtered_candidates))
    /\ ToSet(filtered_candidates) \cap existing_names # {}

(***************************************************************************)
(* C3                                                                      *)
(***************************************************************************)
\* C3: the length filter is inclusive on both ends: a candidate of exactly
\* length_min or length_max characters passes the length stage, one of
\* length_min - 1 or length_max + 1 characters is discarded, and every name
\* generate returns has length_min <= character count <= length_max.
C3_LengthInclusive ==
    /\ FiltersApplied =>
          \A i \in DOMAIN verdicts :
              LET n == Len(all_candidates[i].name)
              IN  /\ (n = LengthMin \/ n = LengthMax) /\ LengthMin <= LengthMax
                        => verdicts[i] # "length"
                  /\ (n = LengthMin - 1 \/ n = LengthMax + 1) => verdicts[i] = "length"
                  /\ verdicts[i] = "length" <=> (n < LengthMin \/ n > LengthMax)
    /\ pc = "done" =>
          \A n \in BagToSet(result) : LengthMin <= Len(n) /\ Len(n) <= LengthMax

\* a finished call with candidates of length_min - 1, length_min, length_max
\* and length_max + 1 characters, length_min < length_max, and a result
C3_Witness ==
    /\ pc = "done"
    /\ LengthMin < LengthMax
    /\ result # EmptyBag
    /\ \A n \in {LengthMin - 1, LengthMin, LengthMax, LengthMax + 1} :
           \E i \in DOMAIN verdicts : Len(all_candidates[i].name) = n
    /\ \E n \in BagToSet(result) : Len(n) = LengthMin
    /\ \E n \in BagToSet(result) : Len(n) = LengthMax

(***************************************************************************)
(* C4                                                                      *)
(***************************************************************************)
\* the template text {a}{b}
TwoPlain(a, b) == <<"{">> \o a \o <<"}", "{">> \o b \o <<"}">>

\* the candidate of a pair of roots: both words in order, both tag lists
PairCandidate(ra, rb) ==
    [name |-> ra.word \o rb.word,
     tags |-> Get(ra, "tags", <<>>) \o Get(rb, "tags", <<>>)]

\* the list holds exactly one candidate for every pair (i, j), i in I, j in J,
\* of roots of the categories a and b
OnePerPair(list, a, I, b, J) ==
    /\ Len(list) = Cardinality(I) * Cardinality(J)
    /\ \A i \in I, j \in J :
          LET c == PairCandidate(roots[a][i], roots[b][j])
          IN  Occurrences(list, c) =
                  Cardinality({pq \in I \X J :
                                  PairCandidate(roots[a][pq[1]], roots[b][pq[2]]) = c})

\* C4: for a template {A}{B} of two distinct unconstrained placeholders whose
\* categories hold n1 and n2 roots, _apply_template returns exactly n1 * n2
\* candidates, one for each pair (root of A, root of B), named word(A-root)
\* followed by word(B-root) and carrying the tags of both roots.
C4_CartesianComplete ==
    Expanding =>
        \A k \in 1..Len(expanded) : \A a, b \in DOMAIN roots :
            (a # b /\ templates[k] = TwoPlain(a, b)) =>
                /\ Len(expanded[k]) = Len(roots[a]) * Len(roots[b])
                /\ OnePerPair(expanded[k], a, 1..Len(roots[a]), b, 1..Len(roots[b]))

\* the expansion of {A}{B} over two categories of two roots each
C4_Witness ==
    Expanding /\ \E k \in 1..Len(expanded) : \E a, b \in DOMAIN roots :
        /\ a # b
        /\ templates[k] = TwoPlain(a, b)
        /\ Len(roots[a]) = 2 /\ roots[a][1] # roots[a][2]
        /\ Len(roots[b]) = 2 /\ roots[b][1] # roots[b][2]
        /\ Len(expanded[k]) = 4

(***************************************************************************)
(* C5                                                                      *)
(***************************************************************************)
\* the template text {a:tag}{b}
OneConstrained(a, tag, b) == <<"{">> \o a \o <<":">> \o tag \o <<"}", "{">> \o b \o <<"}">>

\* the positions of the roots of category a whose tags contain tag
Carrying(a, tag) ==
    {i \in 1..Len(roots[a]) :
        \E n \in 1..Len(Get(roots[a][i], "tags", <<>>)) : roots[a][i].tags[n] = tag}

\* C5: for a template {A:t}{B}, every candidate of _apply_template uses for A
\* a root whose tags contain t, the candidates are exactly the pairs (A-root
\* carrying t, any B-root), and the expansion is empty when no root of A
\* carries t, however many roots B has.
C5_TagConstrained ==
    Expanding =>
        \A k \in 1..Len(expanded) : \A a, b \in DOMAIN roots : \A tag \in Tags :
            (a # b /\ templates[k] = OneConstrained(a, tag, b)) =>
                /\ OnePerPair(expanded[k], a, Carrying(a, tag), b, 1..Len(roots[b]))
                /\ \A n \in 1..Len(expanded[k]) :
                      \E i \in Carrying(a, tag), j \in 1..Len(roots[b]) :
                          expanded[k][n] = PairCandidate(roots[a][i], roots[b][j])
                /\ Carrying(a, tag) = {} => expanded[k] = <<>>

\* the expansion of {A:t}{B} where one root of A carries t, another does not,
\* and B has two roots
C5_Witness ==
    Expanding /\ \E k \in 1..Len(expanded) : \E a, b \in DOMAIN roots : \E tag \in Tags :
        /\ a # b
        /\ templates[k] = OneConstrained(a, tag, b)
        /\ Carrying(a, tag) # {}
        /\ Carrying(a, tag) # 1..Len(roots[a])
        /\ Len(roots[b]) = 2
        /\ Len(expanded[k]) = 2

(***************************************************************************)
(* C6                                                                      *)
(***************************************************************************)
\* the template references a category that the root mapping does not hold
RefersMissing(template) ==
    LET matches == FindAll(template)
    IN  \E n \in 1..Len(matches) : matches[n][1] \notin DOMAIN roots

\* the candidates of a list of templates, template after template
RECURSIVE ExpandAll(_)
ExpandAll(list) ==
    IF list = <<>> THEN <<>>
    ELSE _apply_template(Head(list), roots) \o ExpandAll(Tail(list))

\* C6: a template that references a category absent from the root mapping
\* contributes zero candidates, and the candidates of the other templates of
\* the style are exactly what they are when the failing template is not
\* configured.
C6_MissingCategory ==
    Expanding =>
        LET done == SubSeq(templates, 1, Len(expanded))
        IN  /\ \A k \in 1..Len(expanded) :
                  RefersMissing(templates[k]) => expanded[k] = <<>>
            /\ all_candidates =
                  ExpandAll(SelectSeq(done, LAMBDA tpl : ~RefersMissing(tpl)))

\* the template loop is over, a template before the last referenced a missing
\* category, and templates before and after it contributed candidates
C6_Witness ==
    /\ pc = "expand"
    /\ ti > Len(templates)
    /\ \E k \in 2..(Len(templates) - 1) :
          /\ RefersMissing(templates[k])
          /\ expanded[k - 1] # <<>>
          /\ expanded[k + 1] # <<>>

(***************************************************************************)
(* C7                                                                      *)
(***************************************************************************)
\* C7: generate always completes by returning a list and never raises, for
\* every root mapping, exclusion set and integer count, including count = 0,
\* a negative count and a count larger than the candidate supply.
C7_NeverRaises == pc # "raised"

(***************************************************************************)
(* C8                                                                      *)
(***************************************************************************)
\* the oracle's verdict of check_tag_compatibility is "incompatible" exactly
\* when a declared pair lies in the tags, and "compatible" without pairs
OracleVerdict ==
    pc = "checked" =>
        /\ ~compatible <=> HoldsPair(ToSet(tags1) \cup ToSet(tags2))
        /\ DeclaredPairs = {} => compatible

\* a candidate that carries no complete pair is not rejected by the tag stage
OneMemberPasses ==
    FiltersApplied =>
        \A i \in DOMAIN verdicts :
            ~HoldsPair(ToSet(all_candidates[i].tags)) => verdicts[i] # "tag"

\* C8 as stated: the oracle reports a tag set incompatible iff a declared
\* conflict pair has both members in it (always compatible without pairs); in
\* the filter, a candidate whose unioned root tags contain both members of a
\* pair is rejected, and a candidate carrying only one member passes.
C8_AsStated ==
    /\ OracleVerdict
    /\ OneMemberPasses
    /\ FiltersApplied =>
          \A i \in DOMAIN verdicts :
              HoldsPair(ToSet(all_candidates[i].tags)) => verdicts[i] # "keep"

\* C8, amended: as stated, but the filter rejects the candidate that carries
\* both members of a pair when the style declares a non-empty available-tag
\* list.
C8_TagConflict ==
    /\ OracleVerdict
    /\ OneMemberPasses
    /\ (FiltersApplied /\ Available # <<>>) =>
          \A i \in DOMAIN verdicts :
              HoldsPair(ToSet(all_candidates[i].tags)) => verdicts[i] # "keep"

\* two roots, each free of conflicts, whose union holds a pair: that candidate
\* is rejected by the tag stage, one that carries a single member is kept
C8_Witness ==
    /\ FiltersApplied
    /\ \E i \in DOMAIN verdicts :
          /\ verdicts[i] = "tag"
          /\ \E a, b \in DOMAIN roots : \E ra \in ToSet(roots[a]), rb \in ToSet(roots[b]) :
                /\ all_candidates[i] = PairCandidate(ra, rb)
                /\ ~HoldsPair(ToSet(Get(ra, "tags", <<>>)))
                /\ ~HoldsPair(ToSet(Get(rb, "tags", <<>>)))
    /\ \E j \in DOMAIN verdicts :
          /\ verdicts[j] = "keep"
          /\ \E pair \in DeclaredPairs :
                /\ pair[1] \in ToSet(all_candidates[j].tags)
                /\ pair[2] \notin ToSet(all_candidates[j].tags)

(***************************************************************************)
(* C9                                                                      *)
(***************************************************************************)
\* C9: the tag stage is applied to a candidate only when the style declares a
\* non-empty available-tag list and the candidate carries a tag; otherwise
\* (also with conflict pairs but an empty available list) no candidate is
\* discarded for tag reasons.
C9_TagStageGate ==
    FiltersApplied =>
        \A i \in DOMAIN verdicts :
            verdicts[i] = "tag" => (Available # <<>> /\ all_candidates[i].tags # <<>>)

\* a style with conflict pairs and an empty available list keeps a candidate
\* that carries both members of a pair
C9_Witness ==
    /\ FiltersApplied
    /\ Available = <<>>
    /\ DeclaredPairs # {}
    /\ \E i \in DOMAIN verdicts :
          verdicts[i] = "keep" /\ HoldsPair(ToSet(all_candidates[i].tags))

(***************************************************************************)
(* C10                                                                     *)
(***************************************************************************)
\* C10: check_tag_compatibility(t1, t2, style) returns the verdict of the
\* generator's single-set check of the union of t1 and t2, so the verdict
\* depends neither on the order of the two arguments nor on how the tags are
\* split between them.
C10_PairIsUnion ==
    pc = "checked" =>
        /\ compatible = _check_tag_compatibility_internal(tags1 \o tags2, style_name)
        /\ compatible = _check_tag_compatibility_internal(tags2 \o tags1, style_name)
        /\ \A n \in 0..Len(tags1 \o tags2) :
              LET all == tags1 \o tags2
                  left == SubSeq(all, 1, n)
                  right == SubSeq(all, n + 1, Len(all))
              IN  /\ check_tag_compatibility(left, right, style_name) = compatible
                  /\ check_tag_compatibility(right, left, style_name) = compatible

\* two tag lists, each compatible alone, that conflict together
C10_Witness ==
    /\ pc = "checked"
    /\ ~compatible
    /\ tags1 # <<>> /\ tags2 # <<>>
    /\ _check_tag_compatibility_internal(tags1, style_name)
    /\ _check_tag_compatibility_internal(tags2, style_name)

(***************************************************************************)
(* C11                                                                     *)
(***************************************************************************)
\* the forbidden lists and the duplicate switch of the filter configuration
\* that generate hands to the filter chain
AppliedForbidden == Get(style_filters, "forbidden_combinations", <<>>)
ForbidDuplicateInEffect == Get(style_filters, "forbid_duplicate_chars", TRUE)

\* sub occurs in name as a block of consecutive characters
Occurs(sub, name) ==
    \E i \in 0..(Len(name) - Len(sub)) : SubSeq(name, i + 1, i + Len(sub)) = sub

\* the concatenation of some forbidden list occurs in the name
HoldsForbidden(name) ==
    \E k \in 1..Len(AppliedForbidden) : Occurs(Join(AppliedForbidden[k]), name)

\* C11: a candidate that reaches the forbidden-combination stage is discarded
\* there exactly when the concatenation of the elements of some forbidden list
\* occurs in its name as a contiguous substring (the same characters apart or
\* in another order do not reject), and no name generate returns contains a
\* forbidden concatenation.
C11_ForbiddenSubstring ==
    /\ FiltersApplied =>
          \A i \in DOMAIN verdicts :
              verdicts[i] \notin {"length", "duplicate"} =>
                  (verdicts[i] = "forbidden" <=> HoldsForbidden(all_candidates[i].name))
    /\ pc = "done" => \A n \in BagToSet(result) : ~HoldsForbidden(n)

\* the list [x, y] is forbidden: "xy" is discarded by the stage, "yx" and
\* "xzy" are kept
C11_Witness ==
    /\ FiltersApplied
    /\ \E k \in 1..Len(AppliedForbidden) : AppliedForbidden[k] = << <<"x">>, <<"y">> >>
    /\ \E i, j, n \in DOMAIN verdicts :
          /\ verdicts[i] = "forbidden" /\ all_candidates[i].name = <<"x", "y">>
          /\ verdicts[j] = "keep" /\ all_candidates[j].name = <<"y", "x">>
          /\ verdicts[n] = "keep" /\ all_candidates[n].name = <<"x", "z", "y">>

(***************************************************************************)
(* C12                                                                     *)
(***************************************************************************)
\* two consecutive characters of the name are equal
AdjacentEqual(name) == \E i \in 2..Len(name) : name[i - 1] = name[i]

\* C12: when forbid_duplicate_chars is in effect (the default), a candidate
\* that reaches the duplicate-character stage is discarded there exactly when
\* two consecutive characters of its name are equal (a character repeated at
\* non-adjacent positions passes), and no name generate returns has two equal
\* adjacent characters.
C12_AdjacentDuplicate ==
    /\ (FiltersApplied /\ ForbidDuplicateInEffect) =>
          \A i \in DOMAIN verdicts :
              verdicts[i] # "length" =>
                  (verdicts[i] = "duplicate" <=> AdjacentEqual(all_candidates[i].name))
    /\ (pc = "done" /\ ForbidDuplicateInEffect) =>
          \A n \in BagToSet(result) : ~AdjacentEqual(n)

\* the switch is not configured, so the default applies: "yy" is discarded by
\* the stage, "yzy" is kept
C12_Witness ==
    /\ FiltersApplied
    /\ "forbid_duplicate_chars" \notin DOMAIN style_filters
    /\ \E i, j \in DOMAIN verdicts :
          /\ verdicts[i] = "duplicate" /\ all_candidates[i].name = <<"y", "y">>
          /\ verdicts[j] = "keep" /\ all_candidates[j].name = <<"y", "z", "y">>

(***************************************************************************)
(* C13                                                                     *)
(***************************************************************************)
\* the literal texts {category} and {category:tag} of the placeholders of a
\* template
PlaceholderTexts(template) ==
    LET matches == FindAll(template)
    IN  {IF matches[n][2] = <<>>
         THEN <<"{">> \o matches[n][1] \o <<"}">>
         ELSE <<"{">> \o matches[n][1] \o <<":">> \o matches[n][2] \o <<"}">> :
            n \in 1..Len(matches)}

\* every referenced category exists and has a root that qualifies for every
\* constraint the template puts on it
AllQualify(template) ==
    LET matches == FindAll(template)
    IN  \A n \in 1..Len(matches) :
            /\ matches[n][1] \in DOMAIN roots
            /\ roots[matches[n][1]] # <<>>
            /\ matches[n][2] # <<>> => Carrying(matches[n][1], matches[n][2]) # {}

\* C13: for every template whose referenced categories all exist and have
\* qualifying roots, no literal placeholder text of the template remains in
\* any candidate name of _apply_template, also when a category occurs with and
\* without a tag constraint or with two different constraints.
C13_NoPlaceholderLeft ==
    Expanding =>
        \A k \in 1..Len(expanded) :
            AllQualify(templates[k]) =>
                \A n \in 1..Len(expanded[k]) : \A p \in PlaceholderTexts(templates[k]) :
                    ~Occurs(p, expanded[k][n].name)

(***************************************************************************)
(* C14                                                                     *)
(***************************************************************************)
\* the template text {a}{a}
TwicePlain(a) == <<"{">> \o a \o <<"}", "{">> \o a \o <<"}">>

\* C14: for a template in which the unconstrained placeholder {A} occurs
\* twice, every candidate name of _apply_template holds the word of one root
\* of A at both occurrences, never the words of two different roots.
C14_SameRootTwice ==
    Expanding =>
        \A k \in 1..Len(expanded) : \A a \in DOMAIN roots :
            templates[k] = TwicePlain(a) =>
                \A n \in 1..Len(expanded[k]) :
                    \E i \in 1..Len(roots[a]) :
                        expanded[k][n].name = roots[a][i].word \o roots[a][i].word

\* the expansion of {A}{A} over a category of two roots with different words
C14_Witness ==
    Expanding /\ \E k \in 1..Len(expanded) : \E a \in DOMAIN roots :
        /\ templates[k] = TwicePlain(a)
        /\ Len(roots[a]) = 2 /\ roots[a][1].word # roots[a][2].word
        /\ Len(expanded[k]) = 4

(***************************************************************************)
(* C15                                                                     *)
(***************************************************************************)
\* the thread is in regenerate_roots, between its get_roots call and the
\* generation call
BeforeGeneration(p) ==
    /\ thread[p].op = "regenerate_roots"
    /\ thread[p].at \in {"cache_check", "load", "generate"}

\* the thread has returned from the operation
Returned(p, op) == thread[p].op = op /\ thread[p].at = "returned"

\* this step is the return of a get_roots call
ReturnsFromGetRoots(p) ==
    /\ thread[p].op = "get_roots"
    /\ Running(p)
    /\ thread'[p].at = "returned"

\* C15: in regenerate_roots(style) the cache entry and the root file of the
\* style are both gone before the generation call is made; the mapping the
\* call returns is the result of a generation call made during this call;
\* and a following get_roots(style) returns that same mapping.
C15_RegenerateFresh ==
    /\ [](\A p \in Threads :
            /\ BeforeGeneration(p) =>
                  /\ thread[p].style \notin DOMAIN roots_cache
                  /\ thread[p].style \notin DOMAIN root_files
            /\ Returned(p, "regenerate_roots") =>
                  /\ thread[p].generated
                  /\ thread[p].returned = thread[p].roots
                  /\ roots_cache[thread[p].style] = thread[p].returned)
    /\ [][\A p \in Threads :
            (/\ ReturnsFromGetRoots(p)
             /\ thread[p].style \in DOMAIN served
             /\ served[thread[p].style].by = "regenerate_roots") =>
                thread'[p].returned = served[thread[p].style].roots]_vars

\* get_roots has returned the mapping of an earlier regenerate_roots, from a
\* state in which the style had a cache entry and a root file before the
\* regeneration, while the root file now holds something else
C15_Witness ==
    \E p \in Threads :
        /\ Returned(p, "get_roots")
        /\ thread[p].style \in DOMAIN served
        /\ served[thread[p].style].by = "regenerate_roots"
        /\ thread[p].returned = served[thread[p].style].roots
        /\ thread[p].returned # EmptyDict
        /\ thread[p].style \in DOMAIN root_files
        /\ root_files[thread[p].style] # SavedFile(thread[p].style, thread[p].returned)

(***************************************************************************)
(* C16                                                                     *)
(***************************************************************************)
\* the thread is in clear_cache(style) or regenerate_roots(style)
Invalidating(p) ==
    /\ thread[p].op \in {"clear_cache", "regenerate_roots"}
    /\ Running(p)
    /\ ~Falsy(thread[p].style)

\* C16: once get_roots(style) has returned, a later get_roots(style) with no
\* clear_cache or regenerate_roots for the style in between returns the same
\* mapping without reading the root file and without calling the generator,
\* whatever has happened to the file; clear_cache(style) and
\* regenerate_roots(style) leave the cache entries of the other styles as
\* they are.
C16_CachedUntilInvalidated ==
    /\ [][\A p \in Threads :
            (ReturnsFromGetRoots(p) /\ thread[p].style \in DOMAIN served) =>
                /\ thread'[p].returned = served[thread[p].style].roots
                /\ ~thread'[p].read
                /\ ~thread'[p].generated]_vars
    /\ [][\A p \in Threads :
            Invalidating(p) =>
                \A other \in StoreStyles \ {thread[p].style} :
                    /\ other \in DOMAIN roots_cache <=> other \in DOMAIN roots_cache'
                    /\ other \in DOMAIN roots_cache =>
                          roots_cache'[other] = roots_cache[other]]_vars

\* get_roots has returned from the cache although the root file is gone,
\* and the cache holds the other style as well
C16_Witness ==
    \E p \in Threads :
        /\ Returned(p, "get_roots")
        /\ ~thread[p].read
        /\ ~thread[p].generated
        /\ thread[p].returned # EmptyDict
        /\ thread[p].style \notin DOMAIN root_files
        /\ DOMAIN roots_cache = StoreStyles

(***************************************************************************)
(* C17                                                                     *)
(***************************************************************************)
\* C17: when get_roots(style) and regenerate_roots(style) run concurrently on
\* one WordRootManager, every regenerate_roots call performs a generation
\* call and returns the roots of that call, never roots that were cached or
\* persisted before the regeneration started.
C17_RegenerateExclusive ==
    \A p \in Threads :
        Returned(p, "regenerate_roots") =>
            /\ thread[p].generated
            /\ thread[p].returned = thread[p].roots

(***************************************************************************)
(* C18                                                                     *)
(***************************************************************************)
\* the entry is a string or a mapping with a word
WellFormed(entry) ==
    "str" \in DOMAIN entry \/ ("dict" \in DOMAIN entry /\ "word" \in DOMAIN entry.dict)

\* a string becomes {word, tags: []}, a mapping without tags gets tags: []
NormalEntry(entry) ==
    IF "str" \in DOMAIN entry THEN [word |-> entry.str, tags |-> <<>>]
    ELSE IF "tags" \in DOMAIN entry.dict THEN entry.dict
    ELSE [word |-> entry.dict.word, tags |-> <<>>]

\* the well-formed entries of the list, normalized, in their order
Normal(list) ==
    LET kept == SelectSeq(list, WellFormed)
    IN  [i \in 1..Len(kept) |-> NormalEntry(kept[i])]

\* list is the beginning of longer
IsPrefix(list, longer) ==
    Len(list) <= Len(longer) /\ SubSeq(longer, 1, Len(list)) = list

\* the JSON object of the response of the thread's generation call, if the
\* response holds one
ParsedOf(p) ==
    LET content == Get(thread[p].response, "content", [text |-> ""])
    IN  IF "json" \in DOMAIN content /\ "dict" \in DOMAIN content.json
        THEN [found |-> TRUE, dict |-> content.json.dict]
        ELSE [found |-> FALSE, dict |-> EmptyDict]

\* C18: every root entry of every mapping get_roots returns (from the cache,
\* a file, a generation or the examples) has a word and a tags field; of a
\* list of a file or of a generated answer a string becomes {word, tags: []},
\* a mapping without tags gets tags: [], an entry that is neither a string
\* nor a mapping with a word is dropped, and the others keep their order.
C18_Normalized ==
    \A p \in Threads :
        /\ (Returned(p, "get_roots") \/ Returned(p, "regenerate_roots")) =>
              \A c \in DOMAIN thread[p].returned :
                  \A i \in 1..Len(thread[p].returned[c]) :
                      {"word", "tags"} \subseteq DOMAIN thread[p].returned[c][i]
        /\ thread[p].at = "cache_loaded" =>
              LET categories ==
                      Get(root_files[thread[p].style].doc, "categories", EmptyDict)
              IN  /\ DOMAIN thread[p].roots = DOMAIN categories
                  /\ \A c \in DOMAIN categories :
                        thread[p].roots[c] = Normal(categories[c])
        /\ (thread[p].at = "save" /\ ParsedOf(p).found) =>
              \A c \in DOMAIN thread[p].roots \cap DOMAIN ParsedOf(p).dict :
                  "list" \in DOMAIN ParsedOf(p).dict[c] =>
                      IsPrefix(Normal(ParsedOf(p).dict[c].list), thread[p].roots[c])

\* get_roots has returned the roots of a file whose list holds a string, a
\* number and a mapping without tags
C18_Witness ==
    \E p \in Threads :
        /\ Returned(p, "get_roots")
        /\ thread[p].read
        /\ ~thread[p].generated
        /\ thread[p].style \in DOMAIN root_files
        /\ root_files[thread[p].style] = FileOf([categories |-> (A :> <<S_x, N_7, D_y>>)])
        /\ thread[p].returned =
              (A :> <<[word |-> <<"x">>, tags |-> <<>>], [word |-> <<"y">>, tags |-> <<>>]>>)

(***************************************************************************)
(* C19                                                                     *)
(***************************************************************************)
\* the running call has the arguments of the completed call before it (the
\* configuration never changes)
SameInputs ==
    /\ previous.called
    /\ style_name = previous.style_name
    /\ roots = previous.roots
    /\ count = previous.count
    /\ existing_names = previous.existing_names

DeclaredFilters == Get(Configured, "filters", EmptyDict)
GlobalForbidDuplicate == Get(filters, "forbid_duplicate_chars", TRUE)
GlobalForbidden ==
    Get(Get(filters, "forbidden_combinations", EmptyDict), style_name, <<>>)

\* C20: for forbid_duplicate_chars and for forbidden_combinations, the value
\* the filter chain applies for a style is the value the style declares, and
\* the globally configured value when the style does not declare the setting;
\* a style with a filters section that omits forbid_duplicate_chars is
\* filtered with the global forbid_duplicate_chars value.
C20_FilterFallback ==
    FiltersApplied =>
        /\ ForbidDuplicateInEffect =
              IF "forbid_duplicate_chars" \in DOMAIN DeclaredFilters
              THEN DeclaredFilters["forbid_duplicate_chars"]
              ELSE GlobalForbidDuplicate
        /\ AppliedForbidden =
              IF "forbidden_combinations" \in DOMAIN DeclaredFilters
              THEN DeclaredFilters["forbidden_combinations"]
              ELSE GlobalForbidden

(***************************************************************************)
(* GLMClient                                                               *)
(***************************************************************************)
\* the cap of the accumulated token count
MaxTokens == 4

\* what requests.post does in one attempt: it raises, or it answers with a
\* status and a body; a body that is JSON holds an error, or choices (maybe
\* none), and maybe a usage
Usage == [prompt_tokens |-> 1, completion_tokens |-> 1, total_tokens |-> 2]
Choice == [message |-> [content |-> "names"]]
WireData ==
    { [error |-> "quota"],
      [id |-> "r"],
      [choices |-> <<>>],
      [choices |-> <<Choice>>],
      [choices |-> <<Choice>>, usage |-> Usage] }
WireResponses ==
    {[raises |-> "timeout"], [status |-> 500], [status |-> 200, text |-> "<html>"]}
        \cup {[status |-> 200, json |-> response_data] : response_data \in WireData}

\* the dict _call_api returns without content
ErrorResult(message, status_code) ==
    [content |-> PyNone, tokens |-> ZeroTokens, error |-> PyStr(message),
     status_code |-> status_code]

\* _call_api: raised tells that the call raises (`message` is str(e)),
\* otherwise result is the dict it returns and tokens what it adds to
\* self.token_usage
_call_api(wire) ==
    IF "raises" \in DOMAIN wire
    THEN [raised |-> TRUE, message |-> wire.raises]
    ELSE IF wire.status # 200
    THEN [raised |-> FALSE, tokens |-> ZeroTokens,
          result |-> ErrorResult("HTTPError", wire.status)]
    ELSE IF "json" \notin DOMAIN wire
    THEN [raised |-> FALSE, tokens |-> ZeroTokens,
          result |-> ErrorResult("JSONDecodeError", wire.status)]
    ELSE LET response_data == wire.json
         IN  IF "error" \in DOMAIN response_data
             THEN [raised |-> TRUE, message |-> "API error: " \o response_data.error]
             ELSE IF "choices" \notin DOMAIN response_data \/ response_data.choices = <<>>
             THEN [raised |-> FALSE, tokens |-> ZeroTokens,
                   result |-> ErrorResult("cannot parse the API response", wire.status)]
             ELSE LET usage == Get(response_data, "usage", EmptyDict)
                      tokens == [input |-> Get(usage, "prompt_tokens", 0),
                                 output |-> Get(usage, "completion_tokens", 0),
                                 total |-> Get(usage, "total_tokens", 0)]
                  IN  [raised |-> FALSE, tokens |-> tokens,
                       result |-> [content |-> PyStr(response_data.choices[1].message.content),
                                   tokens |-> tokens, error |-> PyNone,
                                   status_code |-> wire.status]]

RECURSIVE Pow2(_)
Pow2(n) == IF n = 0 THEN 1 ELSE 2 * Pow2(n - 1)

clientOutside ==
    <<cfgVars, pc, argVars, genVars, tagVars, runVars, storeVars, storageVars, scoreVars,
      pipeline>>

\* GLMClient(max_retries = .., retry_wait_base = ..)
GLMClientInit(max_retries, retry_wait_base) ==
    /\ client.at \in {"idle", "returned"}
    /\ client' = [NewClient EXCEPT !.max_retries = max_retries,
                                   !.retry_wait_base = retry_wait_base]
    /\ UNCHANGED clientOutside

\* generate -> _call_api_with_retry: last_error = None, the loop begins (or
\* has nothing to run)
ClientGenerate ==
    /\ client.at \in {"idle", "returned"}
    /\ client.token_usage.total < MaxTokens
    /\ client' = [client EXCEPT !.at = IF client.max_retries + 1 > 0
                                       THEN "attempt" ELSE "exhausted",
                                !.attempt = 0, !.last_error = PyNone,
                                !.attempts = <<>>, !.waits = <<>>,
                                !.response = EmptyDict]
    /\ UNCHANGED clientOutside

\* one iteration of the loop up to the sleep: _call_api returns and so does
\* the retry wrapper, or it raises and the wrapper will sleep, or leave the
\* loop after the last attempt
CallApi(wire) ==
    /\ client.at = "attempt"
    /\ LET outcome == _call_api(wire)
       IN  IF ~outcome.raised
           THEN client' = [client EXCEPT
                    !.token_usage = [input |-> @.input + outcome.tokens.input,
                                     output |-> @.output + outcome.tokens.output,
                                     total |-> @.total + outcome.tokens.total],
                    !.attempts = Append(@, outcome.result),
                    !.response = outcome.result,
                    !.at = "returned"]
           ELSE client' = [client EXCEPT
                    !.last_error = PyStr(outcome.message),
                    !.attempts = Append(@, [raised |-> outcome.message]),
                    !.at = IF client.attempt < client.max_retries
                           THEN "sleep" ELSE "exhausted"]
    /\ UNCHANGED clientOutside

\* time.sleep(wait_time), then the next iteration
Sleep ==
    /\ client.at = "sleep"
    /\ client' = [client EXCEPT
           !.waits = Append(@, client.retry_wait_base * Pow2(client.attempt)),
           !.attempt = @ + 1,
           !.at = "attempt"]
    /\ UNCHANGED clientOutside

\* the return after the loop; str(None) is "None"
ReturnFailure ==
    /\ client.at = "exhausted"
    /\ client' = [client EXCEPT
           !.response =
               [content |-> PyNone, tokens |-> ZeroTokens,
                error |-> IF client.last_error = PyNone THEN PyStr("None")
                          ELSE client.last_error],
           !.at = "returned"]
    /\ UNCHANGED clientOutside

NextClient ==
    \/ \E max_retries \in 0..DefaultMaxRetries, retry_wait_base \in 1..DefaultRetryWaitBase :
           GLMClientInit(max_retries, retry_wait_base)
    \/ ClientGenerate
    \/ \E wire \in WireResponses : CallApi(wire)
    \/ Sleep
    \/ ReturnFailure

\* the configuration plays no part in the client
InitClient == Init /\ filters = EmptyDict

SpecClient == InitClient /\ [][NextClient]_vars

(***************************************************************************)
(* C21                                                                     *)
(***************************************************************************)
\* the attempt gave no content: _call_api raised, or returned an error
FailedAttempt(outcome) ==
    "raised" \in DOMAIN outcome \/ outcome.error # PyNone

\* C21: generate makes at most max_retries + 1 attempts; every failed
\* attempt except the last of them is followed by another attempt, after a
\* wait of retry_wait_base * 2^attempt seconds and with no wait after the
\* last; the first successful response is returned at once with error None;
\* and when all attempts fail the result has content None and a non-empty
\* error.
C21_RetryUntilLast ==
    /\ Len(client.attempts) <= client.max_retries + 1
    /\ (client.at = "returned" /\ client.attempts # <<>>) =>
          LET n == Len(client.attempts)
              last == client.attempts[n]
          IN  /\ FailedAttempt(last) => n = client.max_retries + 1
              /\ client.waits =
                    [i \in 1..(n - 1) |-> client.retry_wait_base * Pow2(i - 1)]
              /\ ~FailedAttempt(last) =>
                    /\ client.response = last
                    /\ client.response.error = PyNone
              /\ FailedAttempt(last) =>
                    /\ client.response.content = PyNone
                    /\ client.response.error # PyNone
                    /\ client.response.error.str # ""

(***************************************************************************)
(* StorageManager                                                          *)
(***************************************************************************)
\* the cap of the number of lines of all names files together
MaxStored == 3

\* str.strip(): the string without its leading and trailing whitespace
Whitespace == {" ", "\t", "\n"}
RECURSIVE LStrip(_)
LStrip(s) == IF s # <<>> /\ Head(s) \in Whitespace THEN LStrip(Tail(s)) ELSE s
RECURSIVE RStrip(_)
RStrip(s) ==
    IF s # <<>> /\ s[Len(s)] \in Whitespace THEN RStrip(SubSeq(s, 1, Len(s) - 1)) ELSE s
Strip(s) == RStrip(LStrip(s))

\* f.readlines(): the text cut after every line break (the line break stays
\* at the end of its line)
RECURSIVE ReadLines(_, _)
ReadLines(text, line) ==
    IF text = <<>> THEN (IF line = <<>> THEN <<>> ELSE <<line>>)
    ELSE IF Head(text) = "\n"
    THEN <<Append(line, "\n")>> \o ReadLines(Tail(text), <<>>)
    ELSE ReadLines(Tail(text), Append(line, Head(text)))

\* what `for name in names: f.write(name.strip() + "\n")` adds to the file
RECURSIVE WrittenLines(_)
WrittenLines(names) ==
    IF names = <<>> THEN <<>>
    ELSE Strip(Head(names)) \o <<"\n">> \o WrittenLines(Tail(names))

\* names[-limit:] for limit > 0
LastOf(names, limit) ==
    SubSeq(names, (IF Len(names) > limit THEN Len(names) - limit ELSE 0) + 1, Len(names))

\* list_names over the files `files` (style -> text of {style}_names.txt)
list_names(files, style, limit) ==
    IF style \notin DOMAIN files THEN <<>>
    ELSE LET lines == ReadLines(files[style], <<>>)
             stripped == [i \in 1..Len(lines) |-> Strip(lines[i])]
             names == SelectSeq(stripped, LAMBDA line : line # <<>>)
         IN  IF limit > 0 THEN LastOf(names, limit) ELSE names

\* the files after append_names(style, names): open(file_path, "a") creates
\* the file, an empty list returns before it
append_names(files, style, names) ==
    IF names = <<>> THEN files
    ELSE Put(files, style, Get(files, style, <<>>) \o WrittenLines(names))

\* the number of lines of the text, and of all the files
LineCount(text) == Len(ReadLines(text, <<>>))
RECURSIVE TotalLines(_)
TotalLines(files) ==
    IF DOMAIN files = {} THEN 0
    ELSE LET style == CHOOSE s \in DOMAIN files : TRUE
         IN  LineCount(files[style]) + TotalLines(Del(files, style))

\* the names callers store: plain, padded with whitespace, blank, and with a
\* line break or a blank inside
StoredNames ==
    { <<"x">>, <<" ", "x", "\t">>, <<"y", "\n">>, <<" ">>, <<>>,
      <<"x", "\n", "y">>, <<"x", " ", "y">> }
StorageStyles == {"basic", "legacy"}
NameLists == SeqsUpTo(StoredNames, 2)
Limits == -1..(MaxStored + 1)

storageOutside ==
    <<cfgVars, pc, argVars, genVars, tagVars, runVars, storeVars, client, scoreVars, pipeline>>

\* StorageManager.append_names(style, names)
AppendNames(style, names) ==
    /\ TotalLines(name_files) + Len(names) <= MaxStored
    /\ name_files' = append_names(name_files, style, names)
    /\ appended' = Put(appended, style, Get(appended, style, <<>>) \o names)
    /\ UNCHANGED <<storageOutside, listed>>

\* StorageManager.list_names(style, limit)
ListNames(style, limit) ==
    /\ listed' = [style |-> style, limit |-> limit,
                  names |-> list_names(name_files, style, limit)]
    /\ UNCHANGED <<storageOutside, name_files, appended>>

NextStorage ==
    \/ \E style \in StorageStyles, names \in NameLists : AppendNames(style, names)
    \/ \E style \in StorageStyles, limit \in Limits : ListNames(style, limit)

InitStorage == Init /\ filters = EmptyDict

SpecStorage == InitStorage /\ [][NextStorage]_vars

(***************************************************************************)
(* C22                                                                     *)
(***************************************************************************)
\* every name given to append_names for the style so far, trimmed, in the
\* order of the calls
TrimmedAppended(style) ==
    LET all == Get(appended, style, <<>>)
    IN  [i \in 1..Len(all) |-> Strip(all[i])]

\* what the claim expects list_names(style, limit) to return
ExpectedListing(style, limit) ==
    LET all == TrimmedAppended(style)
        n == Min(limit, Len(all))
    IN  IF limit > 0 THEN SubSeq(all, Len(all) - n + 1, Len(all)) ELSE all

\* C22: after any sequence of append_names calls, list_names(style, -1)
\* returns every appended name, trimmed, in the order appended, and
\* list_names(style, n) with n > 0 the last min(n, total) of them; an append
\* to one style changes what list_names returns for no other style.
C22_ListReturnsAppended ==
    /\ [][(listed' # listed /\ (listed'.limit = -1 \/ listed'.limit > 0)) =>
              listed'.names = ExpectedListing(listed'.style, listed'.limit)]_vars
    /\ [][\A other \in StorageStyles :
              Get(appended', other, <<>>) = Get(appended, other, <<>>) =>
                  \A limit \in Limits :
                      list_names(name_files', other, limit)
                          = list_names(name_files, other, limit)]_vars

(***************************************************************************)
(* ScorePipeline: the score files                                          *)
(***************************************************************************)
\* scores are kept in tenths (85 is 8.5); scoring.score_threshold defaults
\* to 8.0
DefaultScoreThreshold == 80

\* f"{score:.1f}" and float(text), for the scores of the model; a line of a
\* score file holds the formatted score as one element
ScoreText == (85 :> "8.5") @@ (72 :> "7.2") @@ (0 :> "0.0")
ScoreOfText(text) == CHOOSE score \in DOMAIN ScoreText : ScoreText[score] = text
IsScoreText(text) == \E score \in DOMAIN ScoreText : ScoreText[score] = text

\* a dict name -> score_info in insertion order: a list of [name, score]
\* with one entry per name
HasKey(d, name) == \E i \in 1..Len(d) : d[i].name = name
SetItem(d, item) ==
    IF HasKey(d, item.name)
    THEN [i \in 1..Len(d) |-> IF d[i].name = item.name THEN item ELSE d[i]]
    ELSE Append(d, item)

\* {**d, **e}
RECURSIVE Merged(_, _)
Merged(d, e) == IF e = <<>> THEN d ELSE Merged(SetItem(d, Head(e)), Tail(e))

\* sorted(items, key = score, reverse = True): stable, by insertion
RECURSIVE InsertByScore(_, _)
InsertByScore(sorted, item) ==
    IF sorted = <<>> THEN <<item>>
    ELSE IF Head(sorted).score >= item.score
    THEN <<Head(sorted)>> \o InsertByScore(Tail(sorted), item)
    ELSE <<item>> \o sorted
RECURSIVE SortedByScore(_)
SortedByScore(items) ==
    IF items = <<>> THEN <<>>
    ELSE InsertByScore(SortedByScore(SubSeq(items, 1, Len(items) - 1)), items[Len(items)])

\* _save_scores: the lines of {style}_scores.txt (one line stands for the
\* five header lines, which all begin with #)
Separator == <<" ", "|", " ">>
HeaderLine == <<"#">>
ScoreLines(scores) ==
    LET sorted_scores == SortedByScore(scores)
    IN  <<HeaderLine>> \o
        [i \in 1..Len(sorted_scores) |->
            sorted_scores[i].name \o Separator \o <<ScoreText[sorted_scores[i].score]>>]

\* line.split(" | ", 1): the index of the first separator, 0 when none
RECURSIVE FindSeparator(_, _)
FindSeparator(line, i) ==
    IF i + Len(Separator) - 1 > Len(line) THEN 0
    ELSE IF SubSeq(line, i, i + Len(Separator) - 1) = Separator THEN i
    ELSE FindSeparator(line, i + 1)

\* _load_existing_scores: the loop over the lines of the file
RECURSIVE LoadedScores(_, _)
LoadedScores(lines, scores) ==
    IF lines = <<>> THEN scores
    ELSE LET line == Strip(Head(lines))
             at == FindSeparator(line, 1)
             name == Strip(SubSeq(line, 1, at - 1))
             text == Strip(SubSeq(line, at + Len(Separator), Len(line)))
         IN  IF line = <<>> \/ Head(line) = "#" \/ at = 0
                 \/ Len(text) # 1 \/ ~IsScoreText(text[1])
             THEN LoadedScores(Tail(lines), scores)
             ELSE LoadedScores(Tail(lines),
                               SetItem(scores, [name |-> name, score |-> ScoreOfText(text[1])]))

\* _load_existing_scores
_load_existing_scores(files, style) ==
    IF style \notin DOMAIN files THEN <<>> ELSE LoadedScores(files[style], <<>>)

\* _save_high_scores: the lines of {style}_high_scores.txt; sorted(names) is
\* kept as a set
HighNames(scores, threshold) ==
    {scores[i].name : i \in {j \in 1..Len(scores) : scores[j].score >= threshold}}

\* the number of entries at or above the threshold
HighCount(scores, threshold) ==
    Cardinality({i \in 1..Len(scores) : scores[i].score >= threshold})

(***************************************************************************)
(* ScorePipeline.score_style                                               *)
(***************************************************************************)
\* what QualityScorer.score_batch does with a batch: it raises, the user
\* interrupts it, or it returns the list the model answered with: a score
\* for every name, or an answer that leaves out the last name, renames the
\* first one or gives it no name
ScoreValues == {85, 72}
FullAnswers(batch) ==
    {[k \in 1..Len(batch) |-> [name |-> batch[k], score |-> given[k]]] :
        given \in [1..Len(batch) -> ScoreValues]}
ScorerOutcomes(batch) ==
    {[raises |-> "Exception"], [raises |-> "KeyboardInterrupt"]}
        \cup {[results |-> answer] : answer \in FullAnswers(batch)}
        \cup {[results |-> SubSeq(answer, 1, Len(answer) - 1)] : answer \in FullAnswers(batch)}
        \cup {[results |-> [answer EXCEPT ![1].name = other]] :
                 answer \in FullAnswers(batch), other \in {<<"q">>, <<>>}}

\* the loop `for result in results: if name: new_scores[name] = result`
RECURSIVE Recorded(_, _)
Recorded(new_scores, results) ==
    IF results = <<>> THEN new_scores
    ELSE Recorded(IF Head(results).name # <<>> THEN SetItem(new_scores, Head(results))
                  ELSE new_scores,
                  Tail(results))

\* [name for name in all_names if name not in existing_scores]
NamesToScore(all_names, existing_scores) ==
    SelectSeq(all_names, LAMBDA name : ~HasKey(existing_scores, name))

\* names_to_score[i:i + batch_size]
BatchAt(names_to_score, i, batch_size) ==
    SubSeq(names_to_score, i + 1, Min(i + batch_size, Len(names_to_score)))

scoreOutside ==
    <<cfgVars, pc, argVars, genVars, tagVars, runVars, storeVars, client, storageVars,
      pipeline>>

\* ScorePipeline(config_manager, quality_scorer) with a scorer of the batch
\* size
ScorePipelineInit(batch_size) ==
    /\ scoring.at \in {"idle", "returned", "raised"}
    /\ scoring' = [NewScorePipeline EXCEPT !.batch_size = batch_size]
    /\ UNCHANGED <<scoreOutside, score_files>>

\* score_style up to the batch loop, with its three early returns; the
\* comparison `s >= self.score_threshold` of the third compares a dict with a
\* float and raises TypeError as soon as existing_scores holds an entry
ScoreStyle(style, force) ==
    /\ scoring.at \in {"idle", "returned", "raised"}
    /\ LET config == get_style(style)
           all_names == list_names(name_files, style, -1)
           existing_scores ==
               IF force THEN <<>> ELSE _load_existing_scores(score_files.scores, style)
           names_to_score ==
               IF force THEN all_names ELSE NamesToScore(all_names, existing_scores)
           call == [NewScorePipeline EXCEPT !.batch_size = scoring.batch_size,
                                           !.style = style, !.force = force]
       IN  IF ~Truthy(config)
           THEN scoring' = [call EXCEPT !.at = "returned",
                                !.result = [error |-> "no such style", scored |-> 0]]
           ELSE IF all_names = <<>>
           THEN scoring' = [call EXCEPT !.at = "returned",
                                !.result = [error |-> "no names", scored |-> 0]]
           ELSE IF names_to_score = <<>>
           THEN scoring' = [call EXCEPT
                    !.all_names = all_names, !.existing_scores = existing_scores,
                    !.at = IF existing_scores = <<>> THEN "returned" ELSE "raised",
                    !.result = IF existing_scores = <<>>
                               THEN [style |-> style, total |-> Len(all_names),
                                     scored |-> 0, skipped |-> Len(all_names),
                                     high_score_count |-> 0]
                               ELSE [raised |-> "TypeError"]]
           ELSE scoring' = [call EXCEPT
                    !.all_names = all_names, !.existing_scores = existing_scores,
                    !.names_to_score = names_to_score, !.at = "batch"]
    /\ UNCHANGED <<scoreOutside, score_files>>

\* one iteration of the batch loop: score_batch, the recording of its
\* results and the saving of the two score files
ScoreBatch(outcome) ==
    /\ scoring.at = "batch"
    /\ LET batch == BatchAt(scoring.names_to_score, scoring.i, scoring.batch_size)
           submitted == Append(scoring.submitted, batch)
       IN  /\ outcome \in ScorerOutcomes(batch)
           /\ IF "raises" \in DOMAIN outcome
              THEN /\ scoring' = [scoring EXCEPT
                          !.submitted = submitted,
                          !.failed = outcome.raises = "Exception",
                          !.interrupted = outcome.raises = "KeyboardInterrupt",
                          !.at = "finish"]
                   /\ UNCHANGED score_files
              ELSE LET new_scores == Recorded(scoring.new_scores, outcome.results)
                       current_all_scores == Merged(scoring.existing_scores, new_scores)
                       next == scoring.i + scoring.batch_size
                   IN  /\ scoring' = [scoring EXCEPT
                              !.submitted = submitted,
                              !.new_scores = new_scores,
                              !.i = next,
                              !.at = IF next < Len(scoring.names_to_score)
                                     THEN "batch" ELSE "finish"]
                       /\ score_files' =
                              IF new_scores = <<>> THEN score_files
                              ELSE [score_files EXCEPT
                                       !.scores = Put(@, scoring.style,
                                                      ScoreLines(current_all_scores)),
                                       !.high = Put(@, scoring.style,
                                                    HighNames(current_all_scores,
                                                              DefaultScoreThreshold))]
    /\ UNCHANGED scoreOutside

\* after the loop: the statistics file and the returned statistics
FinishScoring ==
    /\ scoring.at = "finish"
    /\ LET all_scores == Merged(scoring.existing_scores, scoring.new_scores)
           high == HighCount(all_scores, DefaultScoreThreshold)
       IN  /\ score_files' =
                  IF scoring.new_scores = <<>> THEN score_files
                  ELSE [score_files EXCEPT
                           !.stats = Put(@, scoring.style,
                                         [total |-> Len(all_scores), high_count |-> high])]
           /\ scoring' = [scoring EXCEPT
                  !.at = "returned",
                  !.result =
                      [style |-> scoring.style,
                       total |-> Len(scoring.all_names),
                       scored |-> Len(scoring.new_scores),
                       skipped |-> IF scoring.force THEN 0
                                   ELSE Len(scoring.existing_scores),
                       failed |-> scoring.failed,
                       interrupted |-> scoring.interrupted,
                       high_score_count |-> high]]
    /\ UNCHANGED scoreOutside

\* the styles, batch sizes and stored names of the scoring runs
ScoredStyles == {"basic", "unknown"}
BatchSizes == 1..2
ScoredNameLists == SeqsUpTo({<<"x">>, <<"y">>}, 2) \ {<<>>}

\* names are stored between two score_style calls, when the caller has taken
\* the result of the first
StoreNames(names) ==
    /\ scoring.at \in {"idle", "returned", "raised"}
    /\ TotalLines(name_files) + Len(names) <= MaxStored
    /\ name_files' = append_names(name_files, "basic", names)
    /\ appended' = Put(appended, "basic", Get(appended, "basic", <<>>) \o names)
    /\ scoring' = [NewScorePipeline EXCEPT !.batch_size = scoring.batch_size]
    /\ UNCHANGED <<cfgVars, pc, argVars, genVars, tagVars, runVars, storeVars, client,
                   listed, score_files, pipeline>>

NextScoring ==
    \/ \E batch_size \in BatchSizes : ScorePipelineInit(batch_size)
    \/ \E style \in ScoredStyles, force \in BOOLEAN : ScoreStyle(style, force)
    \/ \E outcome \in [raises : {"Exception", "KeyboardInterrupt"}]
                          \cup [results : SeqsUpTo([name : {<<"x">>, <<"y">>, <<"q">>, <<>>},
                                                    score : ScoreValues], 2)] :
           ScoreBatch(outcome)
    \/ FinishScoring
    \/ \E names \in ScoredNameLists : StoreNames(names)

InitScoring == Init /\ filters = EmptyDict

SpecScoring == InitScoring /\ [][NextScoring]_vars

(***************************************************************************)
(* C23                                                                     *)
(***************************************************************************)
\* the score_style call has reached its batch loop
InBatches == scoring.at \in {"batch", "finish"} \/ "failed" \in DOMAIN scoring.result

\* the call has returned its statistics after a loop that no exception and no
\* interrupt ended
Completed ==
    /\ scoring.at = "returned"
    /\ "failed" \in DOMAIN scoring.result
    /\ ~scoring.result.failed
    /\ ~scoring.result.interrupted

\* the names of all batches given to the scorer, in order
RECURSIVE Flat(_)
Flat(batches) == IF batches = <<>> THEN <<>> ELSE Head(batches) \o Flat(Tail(batches))

\* the stored names of the style with and without an existing score
StoredOf(style) == list_names(name_files, style, -1)
Scored(name) == HasKey(scoring.existing_scores, name)

\* C23: with force = False score_style submits only names without an existing
\* score and reports total = number of stored names and skipped = number of
\* already-scored names; with force = True it submits every stored name and
\* reports skipped = 0; no name is submitted in more than one batch and no
\* batch exceeds batch_size.
C23_ResumeAndBatches ==
    InBatches =>
        LET stored == StoredOf(scoring.style)
            names == Flat(scoring.submitted)
        IN  /\ ~scoring.force => \A k \in 1..Len(names) : ~Scored(names[k])
            /\ \A k \in 1..Len(scoring.submitted) :
                  /\ Len(scoring.submitted[k]) <= scoring.batch_size
                  /\ \A j \in 1..(k - 1) :
                        \A m \in 1..Len(scoring.submitted[k]),
                           n \in 1..Len(scoring.submitted[j]) :
                            scoring.submitted[k][m] # scoring.submitted[j][n]
            /\ scoring.at = "returned" =>
                  /\ scoring.result.total = Len(stored)
                  /\ scoring.result.skipped =
                        IF scoring.force THEN 0
                        ELSE Cardinality({k \in 1..Len(stored) : Scored(stored[k])})
            /\ Completed =>
                  names = IF scoring.force THEN stored
                          ELSE SelectSeq(stored, LAMBDA name : ~Scored(name))

(***************************************************************************)
(* C30                                                                     *)
(***************************************************************************)
\* score_style(style, force = False) has ended where every stored name of
\* the style had an existing score
NothingToScore ==
    /\ scoring.at \in {"returned", "raised"}
    /\ ~scoring.force
    /\ scoring.all_names # <<>>
    /\ scoring.names_to_score = <<>>

\* C30: score_style with force = False, called when every stored name of the
\* style has an existing score, returns without raising and without calling
\* the scorer a result with scored = 0, skipped = total and high_score_count =
\* the number of existing scores at or above the threshold, and rewrites no
\* score file.
C30_NothingToScore ==
    /\ [](NothingToScore =>
            /\ scoring.at = "returned"
            /\ scoring.submitted = <<>>
            /\ scoring.result.scored = 0
            /\ scoring.result.skipped = scoring.result.total
            /\ scoring.result.total = Len(scoring.all_names)
            /\ scoring.result.high_score_count =
                  HighCount(scoring.existing_scores, DefaultScoreThreshold))
    /\ [][NothingToScore' => score_files' = score_files]_vars

(***************************************************************************)
(* C29                                                                     *)
(***************************************************************************)
\* the forbidden lists in effect without the entries whose concatenation is
\* the empty string
NonEmptyForbidden ==
    SelectSeq(AppliedForbidden, LAMBDA forbidden : Join(forbidden) # <<>>)

\* C29: a forbidden_combinations entry that is an empty list rejects no
\* candidate: a candidate is discarded by the forbidden-combination stage only
\* when the concatenation of an entry that is not empty occurs in its name.
C29_EmptyEntryHarmless ==
    FiltersApplied =>
        \A i \in DOMAIN verdicts :
            verdicts[i] = "forbidden" =>
                \E k \in 1..Len(NonEmptyForbidden) :
                    Occurs(Join(NonEmptyForbidden[k]), all_candidates[i].name)

(***************************************************************************)
(* C25                                                                     *)
(***************************************************************************)
\* the names borne by a candidate that left _apply_filters at the given place
NamesLeaving(stage) ==
    {all_candidates[i].name : i \in {k \in DOMAIN verdicts : verdicts[k] = stage}}

\* the deduplication of generate has just run
Deduplicated == pc = "exclude"

\* C25: the name is the deduplication key and tag provenance is discarded
\* after filtering: the names left after deduplication are exactly the names
\* borne by at least one candidate that passes all four filter stages, each
\* once, also when another candidate of the same name was rejected for a tag
\* conflict; the names returned are among them, and are all of them that are
\* not excluded when count allows.
C25_NameIsKey ==
    /\ Deduplicated =>
          /\ BagToSet(unique_candidates) = NamesLeaving("keep")
          /\ \A n \in BagToSet(unique_candidates) : CopiesIn(n, unique_candidates) = 1
    /\ pc = "done" =>
          /\ BagToSet(result) \subseteq NamesLeaving("keep")
          /\ count >= Cardinality(NamesLeaving("keep") \ existing_names) =>
                BagToSet(result) = NamesLeaving("keep") \ existing_names

\* a name is left after deduplication though another candidate bearing it,
\* built from different roots, was rejected by the tag stage
C25_Witness ==
    /\ Deduplicated
    /\ \E n \in NamesLeaving("keep") \cap NamesLeaving("tag") :
          n \in BagToSet(unique_candidates)

(***************************************************************************)
(* C26                                                                     *)
(***************************************************************************)
\* the thread is about to call the AI generator, or about to open the root
\* file for writing
AboutToGenerate(p) == thread[p].at = "generate"
AboutToWrite(p) == thread[p].at = "save"

\* C26: get_roots calls the AI generator and writes the root file of the
\* style only when the style has neither a cache entry nor a root file: a root
\* file that exists is never overwritten by get_roots, whatever its content.
C26_GenerateOnlyWhenAbsent ==
    (AboutToGenerate(Main) \/ AboutToWrite(Main)) =>
        /\ thread[Main].style \notin DOMAIN roots_cache
        /\ thread[Main].style \notin DOMAIN root_files

(***************************************************************************)
(* ConfigManager.validate_style                                            *)
(***************************************************************************)
RequiredKeys == {"description", "length_min", "length_max", "charset"}

\* mutant: every configured style is valid
validate_style_any(name) == Truthy(get_style(name))

validate_style(name) ==
    LET style == get_style(name)
    IN  Truthy(style) /\ \A key \in RequiredKeys : key \in DOMAIN style

(***************************************************************************)
(* GenerationPipeline.generate_for_style, V2                               *)
(***************************************************************************)
\* the result dictionaries of _generate_v2: `error` is stats.error
ErrorOutcome(message) == [valid_names |-> <<>>, error |-> PyStr(message)]
NamesOutcome(names) == [valid_names |-> names, error |-> PyNone]

\* the lists a Python list of the given elements can be: list(set(...)) and
\* random.sample leave the order open
ListsOf(bag) ==
    {names \in [1..BagCardinality(bag) -> BagToSet(bag)] :
        \A n \in BagToSet(bag) : Occurrences(names, n) = bag[n]}

\* set(self.storage.list_names(style_name, limit=-1))
ExistingOf(style) == ToSet(list_names(name_files, style, -1))

\* what the pipeline leaves alone
pipelineOutside == <<cfgVars, tagVars, runVars, client, listed, scoreVars>>

\* generate_for_style(style, cnt) up to the call of get_roots: the two early
\* returns, or the start of get_roots
GenerateForStyle(style, cnt) ==
    /\ pipeline.at \in {"idle", "returned"}
    /\ pc = "idle"
    /\ TotalLines(name_files) + cnt <= MaxStored
    /\ IF ~Truthy(get_style(style))
       THEN /\ pipeline' = [pipeline EXCEPT !.at = "returned", !.style = style,
                                            !.count = cnt,
                                            !.result = ErrorOutcome("not found")]
            /\ UNCHANGED thread
       ELSE IF ~validate_style(style)
       THEN /\ pipeline' = [pipeline EXCEPT !.at = "returned", !.style = style,
                                            !.count = cnt,
                                            !.result = ErrorOutcome("invalid")]
            /\ UNCHANGED thread
       ELSE /\ pipeline' = [pipeline EXCEPT !.at = "running", !.style = style,
                                            !.count = cnt, !.result = EmptyDict]
            /\ Begin(Main, "get_roots", style, "cache_check")
    /\ UNCHANGED <<pipelineOutside, pc, argVars, genVars, roots_cache, root_files,
                   served, name_files, appended>>

\* get_roots has returned: existing_names is read from storage and generate
\* is called with the roots
GenerateNames ==
    /\ pipeline.at = "running"
    /\ thread[Main].at = "returned"
    /\ Generate(pipeline.style, thread[Main].returned, pipeline.count,
                ExistingOf(pipeline.style))

\* generate has returned: `if names:` append_names and write_metadata, and
\* the result is returned
StoreResult ==
    /\ pipeline.at = "running"
    /\ pc = "done"
    /\ \E names \in ListsOf(result) :
          /\ name_files' = append_names(name_files, pipeline.style, names)
          /\ appended' =
                 IF names # <<>>
                 THEN Put(appended, pipeline.style,
                          Get(appended, pipeline.style, <<>>) \o names)
                 ELSE appended
          /\ pipeline' =
                 [pipeline EXCEPT
                     !.at = "returned",
                     !.result = NamesOutcome(names),
                     !.metadata =
                         IF names # <<>>
                         THEN Put(@, pipeline.style,
                                  Append(Get(@, pipeline.style, <<>>), Len(names)))
                         ELSE @]
    /\ pc' = "idle"
    /\ UNCHANGED <<pipelineOutside, argVars, genVars, storeVars>>

\* except Exception: get_roots or generate has raised
CatchException ==
    /\ pipeline.at = "running"
    /\ pc = "raised" \/ thread[Main].at = "raised"
    /\ pipeline' = [pipeline EXCEPT !.at = "returned",
                                    !.result = ErrorOutcome("failed")]
    /\ pc' = "idle"
    /\ UNCHANGED <<pipelineOutside, argVars, genVars, storeVars, name_files, appended>>

\* the styles asked for: a valid one, one without the length keys, one that
\* is not configured
PipelineStyles == {"plain", "bare", "unknown"}
NameStyle == "plain"
PipelineCounts == {-1, 1, 2}

\* a root word that ends with a blank
S_xb == [str |-> <<"x", " ">>]

\* root files and GLM answers of the valid style
PipelineImages ==
    {FileOf([categories |-> (A :> <<D_xt, D_y>>)]),
     FileOf([categories |-> (A :> <<S_xb>>)])}
PipelineResponses ==
    {[error |-> "failed"],
     [content |-> [json |-> [dict |-> (A :> [list |-> <<D_y>>])]]],
     [content |-> [json |-> [dict |-> (A :> [list |-> <<S_xb>>])]]]}

\* between two calls somebody writes the root file of the valid style
EditRootFile(image) ==
    /\ pipeline.at # "running"
    /\ FileEdited(NameStyle, image)

NextPipeline ==
    \/ \E style \in PipelineStyles, cnt \in PipelineCounts : GenerateForStyle(style, cnt)
    \/ CacheCheck(Main)
    \/ CacheRead(Main)
    \/ LoadFile(Main)
    \/ CacheLoaded(Main)
    \/ \E response \in PipelineResponses : GenerateRoots(Main, response)
    \/ SaveOpen(Main)
    \/ SaveDump(Main)
    \/ CacheGenerated(Main)
    \/ GenerateNames
    \/ ExpandTemplate
    \/ Filter
    \/ Dedup
    \/ Exclude
    \/ ReturnAll
    \/ Sample
    \/ SampleRaises
    \/ StoreResult
    \/ CatchException
    \/ \E image \in PipelineImages : EditRootFile(image)

InitPipeline == Init /\ filters = EmptyDict

SpecPipeline == InitPipeline /\ [][NextPipeline]_vars

(***************************************************************************)
(* C24                                                                     *)
(***************************************************************************)
\* the style is not configured, or its configuration lacks a required key
LacksRequired(style) ==
    \/ style \notin DOMAIN styles
    \/ \E key \in RequiredKeys : key \notin DOMAIN styles[style]

\* this step is a call of generate_for_style
PipelineCalled == pipeline.at # "running" /\ pipeline' # pipeline

\* C24: generate_for_style for a style that does not exist, or whose
\* configuration lacks a required key, returns empty valid_names and a
\* stats.error, without calling the language-model API, without creating or
\* changing the root cache or a root file, and without appending to storage.
C24_InvalidStyle ==
    /\ [](pipeline.at = "running" => ~LacksRequired(pipeline.style))
    /\ [][(PipelineCalled /\ LacksRequired(pipeline'.style)) =>
             /\ pipeline'.at = "returned"
             /\ pipeline'.result.valid_names = <<>>
             /\ pipeline'.result.error # PyNone
             /\ pipeline'.metadata = pipeline.metadata
             /\ UNCHANGED <<client, thread, roots_cache, root_files, name_files,
                            appended>>]_vars

\* the call for the style without length keys has returned its error, after
\* an earlier call has cached roots and stored names
C24_Witness ==
    /\ pipeline.at = "returned"
    /\ pipeline.style = "bare"
    /\ pipeline.result.valid_names = <<>>
    /\ pipeline.result.error # PyNone
    /\ roots_cache # EmptyDict
    /\ name_files # EmptyDict

(***************************************************************************)
(* C28                                                                     *)
(***************************************************************************)
\* the names list_names finds in the names file of the style
StoredIn(style) == list_names(name_files, style, -1)

\* C28: after any sequence of V2 generate_for_style calls for a style,
\* starting from an empty names file, no name occurs more than once in the
\* stored names of the style, and every name of a returned non-empty
\* valid_names has been appended to storage.
C28_StoredOnce ==
    /\ \A style \in DOMAIN name_files :
          \A i, j \in 1..Len(StoredIn(style)) :
              i # j => StoredIn(style)[i] # StoredIn(style)[j]
    /\ (pipeline.at = "returned" /\ pipeline.result.valid_names # <<>>) =>
          ToSet(pipeline.result.valid_names) \subseteq ToSet(StoredIn(pipeline.style))

(***************************************************************************)
(* C27                                                                     *)
(***************************************************************************)
\* generate runs, or has returned or raised, inside a pipeline call
InGenerate == pipeline.at = "running" /\ pc # "idle"

\* C27: the filter chain and generate have no side effects on their inputs:
\* while generate runs and after it returns, the root mapping (every category
\* list, word and tag list) and the existing_names set are what they were
\* when it was called, and the root cache that holds those roots is unchanged.
C27_InputsUntouched ==
    InGenerate =>
        /\ roots = thread[Main].returned
        /\ existing_names = ExistingOf(pipeline.style)
        /\ roots_cache = Put(roots_cache, pipeline.style, thread[Main].returned)
        /\ served[pipeline.style].roots = thread[Main].returned

\* generate has returned names built from cached roots that carry tags,
\* after it excluded a stored name
C27_Witness ==
    /\ InGenerate
    /\ pc = "done"
    /\ result # EmptyBag
    /\ existing_names \cap {c.name : c \in ToSet(all_candidates)} # {}
    /\ \E c \in DOMAIN roots : \E i \in 1..Len(roots[c]) : roots[c][i].tags # <<>>

=============================================================================
